---- MODULE Spec2Model ----
(***************************************************************************)
(* Orafinite control plane: the Garak scan orchestrator (start_scan, the   *)
(* driver task run_garak_scan / poll_scan_status, cancel_scan), the ML     *)
(* gateway's circuit breaker and client cache (get_ml_client), and the     *)
(* per-minute limiter and monthly quota kept in the in-memory store.       *)
(*                                                                         *)
(* Every handler is cut at its await points that touch shared state (a SQL *)
(* statement, a store command, a lock acquisition): one action is one such *)
(* access together with the local computation that follows it.             *)
(***************************************************************************)
EXTENDS Integers, Sequences, FiniteSets, TLC

VARIABLES
    env,          \* what the surroundings may do in this run (fixed by Init)
    scan,         \* table scan: scan id -> row ("absent" = no row)
    scan_result,  \* table scan_result: scan id -> rows in insertion order
    start,        \* start_scan handler of each prospective scan
    drv,          \* driver task (run_garak_scan + poll_scan_status) of each scan
    cancel,       \* cancel_scan handlers
    sidecar,      \* ML sidecar: per remote scan, what it has been sent
    clock,        \* wall clock in seconds, and the number of times it was advanced
    circuit_breaker, \* AppState.circuit_breaker: state, failure_count, last_failure_time
    ml_client,    \* AppState.ml_client: the cached client, if any
    cache_writer, \* the get_ml_client call holding ml_client's write lock (0 = none)
    gmc,          \* get_ml_client calls
    streak,       \* history: construction failures since the last successful one
    redis,        \* the store: key -> value and time to live
    req,          \* guard requests passing the limiter and the quota
    bat,          \* batch_scan handlers
    write_buffer, \* the guard-log write buffer: the channel and the flush task
    guard,        \* scan_prompt, validate_output and advanced_scan handlers
    scan_cache,   \* the store's guard:scan:{hash} keys: prompt -> cached response
    sse,          \* requests to the guard-events endpoints and their streams
    pager,        \* table guard_log and a client paging through list_guard_logs
    models,       \* table model_config and the requests that write is_default
    scan_log,     \* table scan_log: the probe logs persisted for each scan
    watch,        \* scan_events handlers and their watcher tasks
    hist          \* history: ticket issue times, entries produced, ids drawn

scanVars == <<env, scan, scan_result, start, drv, cancel, sidecar>>

gatewayVars == <<circuit_breaker, ml_client, cache_writer, gmc, streak>>

storeVars == <<redis, req>>

vars == <<scanVars, clock, gatewayVars, storeVars, bat, guard, scan_cache,
          write_buffer, sse, pager, models, scan_log, watch, hist>>

\* What a step of the orchestrator, of the gateway, of the limiter leaves alone.
outsideScan == <<clock, gatewayVars, storeVars, bat, guard, scan_cache,
                 write_buffer, sse, pager, models, scan_log, watch, hist>>
outsideGateway == <<scanVars, storeVars, bat, guard, scan_cache, write_buffer,
                    sse, pager, models, scan_log, watch, hist>>
outsideStore == <<scan, scan_result, start, drv, cancel, sidecar, gatewayVars,
                  bat, guard, scan_cache, write_buffer, sse, pager, models, scan_log, watch, hist>>
outsideGuard == <<scan, scan_result, start, drv, cancel, sidecar, gatewayVars,
                  sse, pager, models, scan_log, watch, hist>>
outsideWatch == <<scanVars, clock, gatewayVars, storeVars, bat, guard, scan_cache,
                  write_buffer, sse, pager, models, scan_log, hist>>
outsideSse == <<scan, scan_result, start, drv, cancel, sidecar, gatewayVars,
                req, bat, guard, scan_cache, pager, models, scan_log, watch>>

(***************************************************************************)
(* Program constants                                                       *)
(***************************************************************************)
MAX_CONCURRENT_SCANS == 4
MAX_CONSECUTIVE_FAILURES == 10
DEDUP_PREFIX_BYTES == 80
CIRCUIT_FAILURE_THRESHOLD == 5
CIRCUIT_RESET_TIMEOUT_SECS == 30
CLIENT_CACHE_TTL_SECS == 300
RATE_LIMIT_WINDOW_SECONDS == 60
MONTHLY_WINDOW_SECONDS == 30 * 24 * 60 * 60
MAX_BATCH_SIZE == 50
SSE_TICKET_TTL_SECS == 30

(***************************************************************************)
(* Bounds of the model                                                     *)
(***************************************************************************)
NumScans == 1          \* scans of the driver specification
NumRacers == 2         \* concurrent start_scan requests of the gate specification
NumCancellers == 1     \* cancel_scan handlers
MaxCancelCalls == 2    \* calls each cancel_scan handler makes
MaxVulns == 2          \* vulnerabilities in one status response
NumCallers == 2        \* concurrent get_ml_client calls
MaxFailures == 6       \* consecutive construction failures
MaxTicks == 2          \* times the clock is advanced
NumRequests == 2       \* concurrent guard requests of one API key
RateLimitRpm == 2      \* the key's requests per minute (api_key.rate_limit_rpm)
MonthlyLimit == 2      \* the key's monthly quota (lookup_api_key_quota)
MaxBatch == 2          \* prompts in one batch request
MaxCount == 5          \* largest value a counter of the store takes
ChannelCapacity == 1   \* entries the write buffer's channel holds (CHANNEL_BUFFER)
FlushSize == 2         \* entries that make the flush task flush at once (BATCH_SIZE)
NumClients == 3        \* requests to the guard-events endpoints
MaxRows == 3           \* rows of table guard_log
MaxEntries == 2        \* guard-log entries produced in the events specification
MaxLogs == 2           \* probe logs in one status response
MaxStats == 1          \* stats_update events sent to one guard-events client
NumWatchers == 1       \* connections to the scan events endpoint
MaxWatchTicks == 2     \* ticks of a watcher that are followed one by one

(***************************************************************************)
(* Text.  A string is a sequence of characters; a character outside ASCII  *)
(* takes two bytes in UTF-8.                                               *)
(***************************************************************************)
WideChars == {"e_acute"}

Utf8Len(c) == IF c \in WideChars THEN 2 ELSE 1

\* The length in bytes of the first k characters of t.
PrefixBytes(t, k) == k + Cardinality({j \in 1..k : Utf8Len(t[j]) = 2})

None == "None"

\* str::get(..n): the prefix of n bytes, or None when n is past the end or
\* falls inside a character.
StrGetTo(t, n) ==
    LET cuts == {k \in 0..Len(t) : PrefixBytes(t, k) = n}
    IN  IF cuts = {} THEN None ELSE SubSeq(t, 1, CHOOSE k \in cuts : TRUE)

Repeat(c, n) == [i \in 1..n |-> c]

(***************************************************************************)
(* Vulnerabilities the sidecar may report, by name.  A and B are two       *)
(* findings of one probe whose attack prompts agree on their first 80      *)
(* bytes and differ after them.                                            *)
(***************************************************************************)
Vuln(name, class, prompt) ==
    [probe_name |-> name, probe_class |-> class, attack_prompt |-> prompt]

VulnPool == {"A", "B", "C"}

VulnInfo(v) ==
    CASE v = "A" -> Vuln(<<"p", "1">>, <<"c">>, Repeat("a", DEDUP_PREFIX_BYTES) \o <<"x">>)
      [] v = "B" -> Vuln(<<"p", "1">>, <<"c">>, Repeat("a", DEDUP_PREFIX_BYTES) \o <<"y">>)
      [] OTHER   -> Vuln(<<"p", "2">>, <<"c">>, <<"b">>)

\* format!("{}:{}:{}", probe_name, probe_class, attack_prompt.get(..80).unwrap_or(attack_prompt))
DedupKeyOf(info) ==
    LET p == StrGetTo(info.attack_prompt, DEDUP_PREFIX_BYTES)
    IN  info.probe_name \o <<":">> \o info.probe_class \o <<":">>
          \o (IF p = None THEN info.attack_prompt ELSE p)

\* The key of each vulnerability of the pool.
VulnKeys == [v \in VulnPool |-> DedupKeyOf(VulnInfo(v))]

DedupKey(v) == VulnKeys[v]

SeqsUpTo(S, n) == UNION {[1..k -> S] : k \in 0..n}

(***************************************************************************)
(* Scan rows                                                               *)
(***************************************************************************)
Active == {"queued", "running"}
Terminal == {"completed", "failed", "cancelled"}

Creator == "alice"

NoRow ==
    [status |-> "absent", remote_scan_id |-> 0, error_message |-> "",
     completed_at |-> "null", created_by |-> "", vulnerabilities_found |-> 0]

\* SELECT COUNT(*) FROM scan WHERE status IN ('queued', 'running')
ActiveScanCount == Cardinality({s \in DOMAIN scan : scan[s].status \in Active})

NoResp ==
    [status |-> "", vulnerabilities |-> <<>>, probe_logs |-> <<>>,
     vulnerabilities_found |-> 0]

\* failed_polls is a history of the loop: the poll iterations that failed
\* since the last Ok of get_garak_status, counted up to
\* MAX_CONSECUTIVE_FAILURES; seen_running is the history of the log keys the
\* sidecar has reported with status "running" before they were stored.
DrvIdle ==
    [pc |-> "none", consecutive_failures |-> 0, stored_vuln_keys |-> {},
     stored_log_keys |-> {}, resp |-> NoResp, i |-> 0, failed_polls |-> 0,
     seen_running |-> {}]

StartIdle == [pc |-> "idle", resp |-> ""]

CancelIdle == [pc |-> "idle", scan |-> 0, status |-> "", remote |-> 0,
               resp |-> "", message |-> "", calls |-> 0]

\* The session user of each cancel_scan handler: the first is the scans' creator.
Caller(c) == IF c = 1 THEN Creator ELSE "mallory"

(***************************************************************************)
(* start_scan                                                              *)
(***************************************************************************)
\* The COUNT(*) query (a failed query reads as 0) and the comparison with
\* MAX_CONCURRENT_SCANS.
StartCount(s) ==
    /\ start[s].pc = "idle"
    /\ scan[s].status = "absent"
    /\ \E ok \in env.outcomes :
          LET active_scan_count == IF ok THEN ActiveScanCount ELSE 0
          IN  start' = [start EXCEPT ![s] =
                 IF active_scan_count >= MAX_CONCURRENT_SCANS
                 THEN [pc |-> "idle", resp |-> "TOO_MANY_SCANS"]
                 ELSE [pc |-> "admitted", resp |-> ""]]
    /\ UNCHANGED <<env, scan, scan_result, drv, cancel, sidecar>>
    /\ UNCHANGED outsideScan

\* get_ml_client and the sidecar health check.
StartHealth(s) ==
    /\ start[s].pc = "admitted"
    /\ \E client \in env.outcomes, healthy \in env.outcomes :
          start' = [start EXCEPT ![s] =
             IF ~client THEN [pc |-> "idle", resp |-> "ML_SERVICE_UNAVAILABLE"]
             ELSE IF ~healthy THEN [pc |-> "idle", resp |-> "ML_SERVICE_UNHEALTHY"]
             ELSE [pc |-> "healthy", resp |-> ""]]
    /\ UNCHANGED <<env, scan, scan_result, drv, cancel, sidecar>>
    /\ UNCHANGED outsideScan

\* INSERT INTO scan (... 'queued' ...), then tokio::spawn(run_garak_scan).
StartInsert(s) ==
    /\ start[s].pc = "healthy"
    /\ \E ok \in env.outcomes :
          IF ok
          THEN /\ scan' = [scan EXCEPT ![s] =
                     [NoRow EXCEPT !.status = "queued", !.created_by = Creator]]
               /\ drv' = [drv EXCEPT ![s] = [DrvIdle EXCEPT !.pc = "spawned"]]
               /\ start' = [start EXCEPT ![s] = [pc |-> "done", resp |-> "queued"]]
          ELSE /\ start' = [start EXCEPT ![s] =
                     [pc |-> "idle", resp |-> "DB_INSERT_FAILED"]]
               /\ UNCHANGED <<scan, drv>>
    /\ UNCHANGED <<env, scan_result, cancel, sidecar>>
    /\ UNCHANGED outsideScan

(***************************************************************************)
(* run_garak_scan                                                          *)
(***************************************************************************)
\* UPDATE scan SET status = 'failed', error_message = $2 WHERE id = $1;
\* an error of the statement is logged and dropped.
mark_scan_failed(s, msg, ok) ==
    IF ok
    THEN [scan EXCEPT ![s].status = "failed", ![s].error_message = msg]
    ELSE scan

\* UPDATE scan SET status = 'running', started_at = $2 WHERE id = $1
DrvSetRunning(s) ==
    /\ drv[s].pc = "spawned"
    /\ \E ok \in env.outcomes :
          IF ok
          THEN /\ scan' = [scan EXCEPT ![s].status = "running"]
               /\ drv' = [drv EXCEPT ![s].pc = "get_client"]
          ELSE /\ drv' = [drv EXCEPT ![s].pc = "done"]
               /\ UNCHANGED scan
    /\ UNCHANGED <<env, scan_result, start, cancel, sidecar>>
    /\ UNCHANGED outsideScan

\* get_ml_client; on Err mark_scan_failed and return.
DrvGetClient(s) ==
    /\ drv[s].pc = "get_client"
    /\ \E client \in env.outcomes, ok \in env.outcomes :
          IF client
          THEN /\ drv' = [drv EXCEPT ![s].pc = "start_rpc"]
               /\ UNCHANGED scan
          ELSE /\ scan' = mark_scan_failed(s, "ML service connection failed", ok)
               /\ drv' = [drv EXCEPT ![s].pc = "done"]
    /\ UNCHANGED <<env, scan_result, start, cancel, sidecar>>
    /\ UNCHANGED outsideScan

\* client.start_garak_scan; on Err mark_scan_failed and return.
DrvStartRpc(s) ==
    /\ drv[s].pc = "start_rpc"
    /\ \E accepted \in env.outcomes, ok \in env.outcomes :
          IF accepted
          THEN /\ sidecar' = [sidecar EXCEPT ![s].started = TRUE]
               /\ drv' = [drv EXCEPT ![s].pc = "store_remote"]
               /\ UNCHANGED scan
          ELSE /\ scan' = mark_scan_failed(s, "Failed to start scan", ok)
               /\ drv' = [drv EXCEPT ![s].pc = "done"]
               /\ UNCHANGED sidecar
    /\ UNCHANGED <<env, scan_result, start, cancel>>
    /\ UNCHANGED outsideScan

\* UPDATE scan SET remote_scan_id = $2 WHERE id = $1 (a failure only warns),
\* then poll_scan_status starts with empty local state.
DrvStoreRemote(s) ==
    /\ drv[s].pc = "store_remote"
    /\ \E ok \in env.outcomes :
          scan' = IF ok THEN [scan EXCEPT ![s].remote_scan_id = s] ELSE scan
    /\ drv' = [drv EXCEPT ![s].pc = "poll_tick"]
    /\ UNCHANGED <<env, scan_result, start, cancel, sidecar>>
    /\ UNCHANGED outsideScan

(***************************************************************************)
(* poll_scan_status                                                        *)
(***************************************************************************)
RespStatuses == {"running", "completed", "failed", "cancelled"}

\* What get_garak_status may answer: vulnerabilities_found is the number
\* of vulnerabilities of the response, or the field's default 0 of a
\* sidecar that does not fill it (env.counted = FALSE).
Responses ==
    {r \in [status : RespStatuses, vulnerabilities : SeqsUpTo(env.pool, MaxVulns),
            probe_logs : env.logs, vulnerabilities_found : 0..MaxVulns] :
        r.vulnerabilities_found = IF env.counted THEN Len(r.vulnerabilities) ELSE 0}

\* interval.tick(), then SELECT status FROM scan WHERE id = $1; a failed
\* query reads as "not cancelled".
DrvPollTick(s) ==
    /\ drv[s].pc = "poll_tick"
    /\ \E ok \in env.outcomes :
          drv' = [drv EXCEPT ![s].pc =
             IF ok /\ scan[s].status = "cancelled" THEN "done" ELSE "poll_client"]
    /\ UNCHANGED <<env, scan, scan_result, start, cancel, sidecar>>
    /\ UNCHANGED outsideScan

\* get_ml_client inside the loop.
DrvPollClient(s) ==
    /\ drv[s].pc = "poll_client"
    /\ \E client \in env.outcomes, ok \in env.outcomes :
          IF client
          THEN /\ drv' = [drv EXCEPT ![s].consecutive_failures = 0,
                                     ![s].pc = "poll_status"]
               /\ UNCHANGED scan
          ELSE LET n == drv[s].consecutive_failures + 1
               IN  IF n >= MAX_CONSECUTIVE_FAILURES
                   THEN /\ scan' = mark_scan_failed(s, "Lost connection to ML service", ok)
                        /\ drv' = [drv EXCEPT ![s].consecutive_failures = n,
                                              ![s].failed_polls =
                                                 IF @ < MAX_CONSECUTIVE_FAILURES THEN @ + 1 ELSE @,
                                              ![s].pc = "done"]
                   ELSE /\ drv' = [drv EXCEPT ![s].consecutive_failures = n,
                                              ![s].failed_polls =
                                                 IF @ < MAX_CONSECUTIVE_FAILURES THEN @ + 1 ELSE @,
                                              ![s].pc = "poll_tick"]
                        /\ UNCHANGED scan
    /\ UNCHANGED <<env, scan_result, start, cancel, sidecar>>
    /\ UNCHANGED outsideScan

\* client.get_garak_status(remote_scan_id), then UPDATE scan SET ...,
\* vulnerabilities_found = $5 with the count of the response; a failed
\* UPDATE is logged.
DrvPollStatus(s) ==
    /\ drv[s].pc = "poll_status"
    /\ \E rpc \in env.outcomes, ok \in env.outcomes, r \in Responses :
          IF rpc
          THEN /\ drv' = [drv EXCEPT ![s].consecutive_failures = 0,
                                     ![s].failed_polls = 0,
                                     ![s].resp = r,
                                     ![s].i = 1,
                                     ![s].pc = IF r.vulnerabilities # <<>>
                                               THEN "ingest"
                                               ELSE IF r.probe_logs # <<>>
                                               THEN "logs" ELSE "match"]
               /\ scan' = IF ok
                          THEN [scan EXCEPT ![s].vulnerabilities_found =
                                                r.vulnerabilities_found]
                          ELSE scan
          ELSE LET n == drv[s].consecutive_failures + 1
               IN  IF n >= MAX_CONSECUTIVE_FAILURES
                   THEN /\ scan' = mark_scan_failed(s, "Failed to get scan status", ok)
                        /\ drv' = [drv EXCEPT ![s].consecutive_failures = n,
                                              ![s].failed_polls =
                                                 IF @ < MAX_CONSECUTIVE_FAILURES THEN @ + 1 ELSE @,
                                              ![s].pc = "done"]
                   ELSE /\ drv' = [drv EXCEPT ![s].consecutive_failures = n,
                                              ![s].failed_polls =
                                                 IF @ < MAX_CONSECUTIVE_FAILURES THEN @ + 1 ELSE @,
                                              ![s].pc = "poll_tick"]
                        /\ UNCHANGED scan
    /\ UNCHANGED <<env, scan_result, start, cancel, sidecar>>
    /\ UNCHANGED outsideScan

\* One turn of the incremental loop over status_response.vulnerabilities:
\* skip a key already stored, else INSERT INTO scan_result and remember the
\* key only when the insert succeeded.
DrvIngestVuln(s) ==
    /\ drv[s].pc = "ingest"
    /\ LET v == drv[s].resp.vulnerabilities[drv[s].i]
           last == drv[s].i = Len(drv[s].resp.vulnerabilities)
           next == [drv EXCEPT ![s].i = IF last THEN 1 ELSE @ + 1,
                               ![s].pc = IF ~last THEN "ingest"
                                         ELSE IF drv[s].resp.probe_logs # <<>>
                                         THEN "logs" ELSE "match"]
       IN  IF DedupKey(v) \in drv[s].stored_vuln_keys
           THEN /\ drv' = next
                /\ UNCHANGED scan_result
           ELSE \E ok \in env.outcomes :
                   IF ok
                   THEN /\ scan_result' = [scan_result EXCEPT ![s] = Append(@, v)]
                        /\ drv' = [next EXCEPT ![s].stored_vuln_keys =
                                                   @ \cup {DedupKey(v)}]
                   ELSE /\ drv' = next
                        /\ UNCHANGED scan_result
    /\ UNCHANGED <<env, scan, start, cancel, sidecar>>
    /\ UNCHANGED outsideScan

\* if plog.status == "running" { continue; }
AnyLogStored(plog) == FALSE

StillRunning(plog) == plog.status = "running"

\* One turn of the loop over status_response.probe_logs: skip a key already
\* stored, skip a log that is still running, else INSERT INTO scan_log and
\* remember the key only when the insert succeeded.
DrvIngestLog(s) ==
    /\ drv[s].pc = "logs"
    /\ LET plog == drv[s].resp.probe_logs[drv[s].i]
           log_key == plog.probe_name \o <<":">> \o plog.probe_class
           last == drv[s].i = Len(drv[s].resp.probe_logs)
           next == [drv EXCEPT ![s].i = IF last THEN 1 ELSE @ + 1,
                               ![s].pc = IF last THEN "match" ELSE "logs",
                               ![s].seen_running =
                                   IF /\ plog.status = "running"
                                      /\ log_key \notin drv[s].stored_log_keys
                                   THEN @ \cup {log_key} ELSE @]
       IN  IF log_key \in drv[s].stored_log_keys \/ StillRunning(plog)
           THEN /\ drv' = next
                /\ UNCHANGED scan_log
           ELSE \E ok \in env.outcomes :
                   IF ok
                   THEN /\ scan_log' = [scan_log EXCEPT ![s] = Append(@, plog)]
                        /\ drv' = [next EXCEPT ![s].stored_log_keys =
                                                   @ \cup {log_key}]
                   ELSE /\ drv' = next
                        /\ UNCHANGED scan_log
    /\ UNCHANGED <<env, scan, scan_result, start, cancel, sidecar, clock,
                   gatewayVars, storeVars, bat, guard, scan_cache, write_buffer,
                   sse, pager, models, watch, hist>>

\* match status_response.status: "completed" goes on to the final pass,
\* "failed" marks the scan failed and leaves the loop, anything else polls again.
DrvMatch(s) ==
    /\ drv[s].pc = "match"
    /\ \E ok \in env.outcomes :
          CASE drv[s].resp.status = "completed" ->
                  /\ drv' = [drv EXCEPT ![s].pc =
                        IF drv[s].resp.vulnerabilities = <<>>
                        THEN "complete" ELSE "final"]
                  /\ UNCHANGED scan
            [] drv[s].resp.status = "failed" ->
                  /\ scan' = mark_scan_failed(s, "sidecar error", ok)
                  /\ drv' = [drv EXCEPT ![s].pc = "done"]
            [] OTHER ->
                  /\ drv' = [drv EXCEPT ![s].pc = "poll_tick", ![s].resp = NoResp]
                  /\ UNCHANGED scan
    /\ UNCHANGED <<env, scan_result, start, cancel, sidecar>>
    /\ UNCHANGED outsideScan

\* One turn of the final pass on "completed": skip a stored key, else INSERT
\* INTO scan_result, dropping the result of the insert (let _ = ...).
DrvFinalVuln(s) ==
    /\ drv[s].pc = "final"
    /\ LET v == drv[s].resp.vulnerabilities[drv[s].i]
           last == drv[s].i = Len(drv[s].resp.vulnerabilities)
       IN  /\ drv' = [drv EXCEPT ![s].i = IF last THEN 1 ELSE @ + 1,
                                 ![s].pc = IF last THEN "complete" ELSE "final"]
           /\ IF DedupKey(v) \in drv[s].stored_vuln_keys
              THEN UNCHANGED scan_result
              ELSE \E ok \in env.outcomes :
                      scan_result' = IF ok
                                     THEN [scan_result EXCEPT ![s] = Append(@, v)]
                                     ELSE scan_result
    /\ UNCHANGED <<env, scan, start, cancel, sidecar>>
    /\ UNCHANGED outsideScan

\* UPDATE scan SET status = 'completed', risk_score = $2, completed_at = $3
\* WHERE id = $1; an error is logged, and the loop is left either way.
DrvComplete(s) ==
    /\ drv[s].pc = "complete"
    /\ \E ok \in env.outcomes :
          scan' = IF ok
                  THEN [scan EXCEPT ![s].status = "completed",
                                    ![s].completed_at = "driver"]
                  ELSE scan
    /\ drv' = [drv EXCEPT ![s].pc = "done", ![s].resp = NoResp]
    /\ UNCHANGED <<env, scan_result, start, cancel, sidecar>>
    /\ UNCHANGED outsideScan

(***************************************************************************)
(* scan_events and poll_and_stream_events                                  *)
(***************************************************************************)
max_iterations == 1500

\* status and vuln_count are what the last SELECT of the scan row returned;
\* rx is the receiver of the stream's channel. events are the events sent;
\* each carries, as history, the rows of scan_result and the status of the
\* scan at the time it was sent.
WatchIdle ==
    [pc |-> "idle", scan_id |-> 0, code |-> "", status |-> "", vuln_count |-> 0,
     last_vuln_count |-> 0, iteration |-> 0, rx |-> "none", events |-> <<>>]

Event(name, row, s) ==
    [event |-> name, row |-> row, rows |-> Len(scan_result[s]),
     status |-> scan[s].status]

\* scan_events up to its SELECT id, status FROM scan WHERE id = $1 AND
\* created_by = $2, asked by the scans' creator.
ScanEvents(w, s) ==
    /\ watch[w].pc = "idle"
    /\ \E ok \in env.outcomes :
          watch' = [watch EXCEPT ![w] =
             IF ~ok THEN [@ EXCEPT !.pc = "done", !.code = "DB_ERROR"]
             ELSE IF scan[s].status = "absent" \/ scan[s].created_by # Creator
             THEN [@ EXCEPT !.pc = "done", !.code = "SCAN_NOT_FOUND"]
             ELSE [@ EXCEPT !.pc = "connect", !.scan_id = s,
                            !.status = scan[s].status]]
    /\ UNCHANGED outsideWatch

\* The channel is created and the connected event sent; for a terminal
\* status the terminal event follows and the sender is dropped, otherwise
\* the watcher is spawned.
WatchConnect(w) ==
    /\ watch[w].pc = "connect"
    /\ LET s == watch[w].scan_id
           status == watch[w].status
       IN  watch' = [watch EXCEPT
              ![w].rx = "open",
              ![w].events = IF status \in Terminal
                            THEN <<Event("connected", 0, s), Event(status, 0, s)>>
                            ELSE <<Event("connected", 0, s)>>,
              ![w].pc = IF status \in Terminal THEN "closed" ELSE "tick",
              ![w].code = "OK"]
    /\ UNCHANGED outsideWatch

\* d ticks of the watcher's interval: d - 1 iterations that found the row
\* as the watcher knows it and sent nothing, then one iteration up to its
\* SELECT of the scan row. Without new vulnerabilities the iteration goes on
\* to the terminal states.
WatchTick(w, d) ==
    /\ watch[w].pc = "tick"
    /\ LET s == watch[w].scan_id
           iteration == watch[w].iteration + d
           status == scan[s].status
           vuln_count == scan[s].vulnerabilities_found
       IN  /\ d = 1 => \/ watch[w].iteration < MaxWatchTicks
                       \/ watch[w].iteration >= max_iterations - 1
           /\ d > 1 => /\ iteration <= max_iterations + 1
                       /\ watch[w].rx = "open"
                       /\ vuln_count <= watch[w].last_vuln_count
                       /\ status \notin Terminal
                       /\ env.outcomes = {TRUE}
           /\ \E ok \in env.outcomes :
                 watch' = [watch EXCEPT ![w] =
                    IF iteration > max_iterations \/ watch[w].rx = "closed" \/ ~ok
                    THEN [@ EXCEPT !.iteration = iteration, !.pc = "exited"]
                    ELSE IF vuln_count > watch[w].last_vuln_count
                    THEN [@ EXCEPT !.iteration = iteration, !.status = status,
                                   !.vuln_count = vuln_count, !.pc = "vulns"]
                    ELSE IF status \in Terminal
                    THEN [@ EXCEPT !.iteration = iteration, !.status = status,
                                   !.vuln_count = vuln_count,
                                   !.events = Append(@, Event(status, 0, s)),
                                   !.pc = "exited"]
                    ELSE [@ EXCEPT !.iteration = iteration, !.status = status,
                                   !.vuln_count = vuln_count]]
    /\ UNCHANGED outsideWatch

\* SELECT ... FROM scan_result WHERE scan_id = $1 ORDER BY created_at DESC
\* LIMIT vuln_count - last_vuln_count, one vulnerability event per row (a
\* failed send ends the task), last_vuln_count = vuln_count, then the
\* terminal states.
WatchVulns(w) ==
    /\ watch[w].pc = "vulns"
    /\ LET s == watch[w].scan_id
           limit == watch[w].vuln_count - watch[w].last_vuln_count
           len == Len(scan_result[s])
           n == IF limit < len THEN limit ELSE len
       IN  \E ok \in env.outcomes :
              LET rows == IF ok THEN [j \in 1..n |-> len - j + 1] ELSE <<>>
                  sent == [j \in 1..Len(rows) |-> Event("vulnerability", rows[j], s)]
              IN  watch' = [watch EXCEPT ![w] =
                     IF rows # <<>> /\ watch[w].rx = "closed"
                     THEN [@ EXCEPT !.pc = "exited"]
                     ELSE [@ EXCEPT
                             !.last_vuln_count = watch[w].vuln_count,
                             !.events = IF watch[w].rx = "closed" THEN @
                                        ELSE IF watch[w].status \in Terminal
                                        THEN Append(@ \o sent, Event(watch[w].status, 0, s))
                                        ELSE @ \o sent,
                             !.pc = IF watch[w].status \in Terminal
                                    THEN "exited" ELSE "tick"]]
    /\ UNCHANGED outsideWatch

\* The client goes away: the response stream and its receiver are dropped.
WatchClose(w) ==
    /\ watch[w].rx = "open"
    /\ watch' = [watch EXCEPT ![w].rx = "closed"]
    /\ UNCHANGED outsideWatch

(***************************************************************************)
(* cancel_scan                                                             *)
(***************************************************************************)
\* A cancellable set that also takes a failed scan: under it a cancel of a
\* failed scan goes on to the RPC and the UPDATE.
CancellableWithFailed == {"running", "queued", "failed"}

\* matches!(current_status.as_str(), "running" | "queued")
Cancellable == {"running", "queued"}

\* SELECT status, created_by FROM scan WHERE id = $1, the ownership check
\* and the check of the cancellable state.
CancelRead(c, s) ==
    /\ cancel[c].pc = "idle"
    /\ cancel[c].calls < MaxCancelCalls
    /\ \E ok \in env.outcomes :
          cancel' = [cancel EXCEPT ![c] =
             LET call == [CancelIdle EXCEPT !.scan = s, !.calls = cancel[c].calls + 1,
                                            !.status = IF ok THEN scan[s].status ELSE "",
                                            !.pc = "done"]
             IN  CASE ~ok -> [call EXCEPT !.resp = "DB_ERROR"]
                   [] ok /\ scan[s].status = "absent" ->
                         [call EXCEPT !.resp = "SCAN_NOT_FOUND"]
                   [] ok /\ scan[s].status # "absent" /\ scan[s].created_by # Caller(c) ->
                         [call EXCEPT !.resp = "FORBIDDEN"]
                   [] ok /\ scan[s].status # "absent" /\ scan[s].created_by = Caller(c)
                         /\ scan[s].status \notin Cancellable ->
                         [call EXCEPT !.resp = scan[s].status,
                                      !.message = "cannot be cancelled"]
                   [] OTHER -> [call EXCEPT !.pc = "remote"]]
    /\ UNCHANGED <<env, scan, scan_result, start, drv, sidecar>>
    /\ UNCHANGED outsideScan

\* SELECT remote_scan_id FROM scan WHERE id = $1; an error reads as NULL.
CancelRemote(c) ==
    /\ cancel[c].pc = "remote"
    /\ \E ok \in env.outcomes :
          LET rid == IF ok THEN scan[cancel[c].scan].remote_scan_id ELSE 0
          IN  cancel' = [cancel EXCEPT ![c].remote = rid,
                                       ![c].pc = IF rid = 0 THEN "update" ELSE "rpc"]
    /\ UNCHANGED <<env, scan, scan_result, start, drv, sidecar>>
    /\ UNCHANGED outsideScan

\* get_ml_client and client.cancel_garak_scan(remote_scan_id); neither
\* failure stops the handler.
CancelRpc(c) ==
    /\ cancel[c].pc = "rpc"
    /\ \E client \in env.outcomes :
          sidecar' = IF client
                     THEN [sidecar EXCEPT ![cancel[c].remote].cancels = @ + 1]
                     ELSE sidecar
    /\ cancel' = [cancel EXCEPT ![c].pc = "update"]
    /\ UNCHANGED <<env, scan, scan_result, start, drv>>
    /\ UNCHANGED outsideScan

\* UPDATE scan SET status = 'cancelled', error_message = 'Cancelled by user',
\* completed_at = $2 WHERE id = $1 AND status IN ('running', 'queued')
CancelUpdate(c) ==
    /\ cancel[c].pc = "update"
    /\ LET s == cancel[c].scan
       IN  \E ok \in env.outcomes :
              /\ scan' = IF ok /\ scan[s].status \in {"running", "queued"}
                         THEN [scan EXCEPT ![s].status = "cancelled",
                                           ![s].error_message = "Cancelled by user",
                                           ![s].completed_at = "cancel"]
                         ELSE scan
              /\ cancel' = [cancel EXCEPT ![c].pc = "done",
                               ![c].resp = IF ok THEN "cancelled" ELSE "DB_UPDATE_FAILED",
                               ![c].message = IF ok THEN "has been cancelled" ELSE ""]
    /\ UNCHANGED <<env, scan_result, start, drv, sidecar>>
    /\ UNCHANGED outsideScan

\* The response is sent; the handler is free for the next request.
CancelReturn(c) ==
    /\ cancel[c].pc = "done"
    /\ cancel' = [cancel EXCEPT ![c].pc = "idle"]
    /\ UNCHANGED <<env, scan, scan_result, start, drv, sidecar>>
    /\ UNCHANGED outsideScan

(***************************************************************************)
(* The clock                                                               *)
(***************************************************************************)
\* Time passes by d seconds.
Tick(d) ==
    /\ clock.ticks < MaxTicks
    /\ clock' = [now |-> clock.now + d, ticks |-> clock.ticks + 1]

(***************************************************************************)
(* CircuitBreaker and AppState::get_ml_client                              *)
(***************************************************************************)
\* CircuitBreaker::new()
NewBreaker == [state |-> "Closed", failure_count |-> 0, last_failure_time |-> 0]

\* ml_client: None, or Some(CachedClient { client, created_at })
NoClient == [present |-> FALSE, created_at |-> 0]

GmcIdle == [pc |-> "idle", result |-> "", probe |-> FALSE, at |-> 0]

\* A breaker that opens one failure later.
OpenAboveThreshold(count) == count > CIRCUIT_FAILURE_THRESHOLD

\* A breaker that waits one second longer.
ResetTimeoutExceeded(now, last_failure) ==
    now - last_failure > CIRCUIT_RESET_TIMEOUT_SECS

\* record_failure: the count is at or above the threshold.
OpenAtOrAboveThreshold(count) == count >= CIRCUIT_FAILURE_THRESHOLD

\* can_attempt: enough time has passed since the last failure.
ResetTimeoutPassed(now, last_failure) ==
    now - last_failure >= CIRCUIT_RESET_TIMEOUT_SECS

\* A cache that is never found valid.
CacheStale == FALSE

\* cached.created_at.elapsed() < Duration::from_secs(CLIENT_CACHE_TTL_SECS)
CacheValid ==
    /\ ml_client.present
    /\ clock.now - ml_client.created_at < CLIENT_CACHE_TTL_SECS

\* can_attempt: *self.state.read().await, and the match on it.
GmcCanAttempt(p) ==
    /\ gmc[p].pc = "idle"
    /\ gmc' = [gmc EXCEPT ![p] =
          [GmcIdle EXCEPT !.pc = IF circuit_breaker.state = "Open"
                                 THEN "ca_open" ELSE "cache_read"]]
    /\ UNCHANGED <<clock, circuit_breaker, ml_client, cache_writer, streak>>
    /\ UNCHANGED outsideGateway

\* can_attempt, arm Open: load last_failure_time, read the clock, compare;
\* false makes get_ml_client return the breaker's error.
GmcCheckTimeout(p) ==
    /\ gmc[p].pc = "ca_open"
    /\ gmc' = [gmc EXCEPT ![p] =
          IF ResetTimeoutPassed(clock.now, circuit_breaker.last_failure_time)
          THEN [@ EXCEPT !.pc = "ca_half_open"]
          ELSE [@ EXCEPT !.pc = "idle", !.result = "ErrBreaker"]]
    /\ UNCHANGED <<clock, circuit_breaker, ml_client, cache_writer, streak>>
    /\ UNCHANGED outsideGateway

\* can_attempt, arm Open: self.state.write().await; *state = HalfOpen; true.
GmcHalfOpen(p) ==
    /\ gmc[p].pc = "ca_half_open"
    /\ circuit_breaker' = [circuit_breaker EXCEPT !.state = "HalfOpen"]
    /\ gmc' = [gmc EXCEPT ![p].pc = "cache_read", ![p].probe = TRUE]
    /\ UNCHANGED <<clock, ml_client, cache_writer, streak>>
    /\ UNCHANGED outsideGateway

\* self.ml_client.read().await: a valid cached client is returned.
GmcCacheRead(p) ==
    /\ gmc[p].pc = "cache_read"
    /\ cache_writer = 0
    /\ gmc' = [gmc EXCEPT ![p] =
          IF CacheValid
          THEN [@ EXCEPT !.pc = "idle", !.result = "Ok"]
          ELSE [@ EXCEPT !.pc = "cache_write"]]
    /\ UNCHANGED <<clock, circuit_breaker, ml_client, cache_writer, streak>>
    /\ UNCHANGED outsideGateway

\* self.ml_client.write().await and the double check; the lock is held
\* until the call returns.
GmcCacheWrite(p) ==
    /\ gmc[p].pc = "cache_write"
    /\ cache_writer = 0
    /\ IF CacheValid
       THEN /\ gmc' = [gmc EXCEPT ![p].pc = "idle", ![p].result = "Ok"]
            /\ UNCHANGED cache_writer
       ELSE /\ gmc' = [gmc EXCEPT ![p].pc = "construct"]
            /\ cache_writer' = p
    /\ UNCHANGED <<clock, circuit_breaker, ml_client, streak>>
    /\ UNCHANGED outsideGateway

\* MlClient::new(..).await answers.  Ok: record_success stores 0 in
\* failure_count and waits for the state lock.  Err: record_failure adds 1,
\* stamps last_failure_time and, at the threshold, waits for the state lock;
\* below it the cache is cleared and the error returned.
GmcConstruct(p) ==
    /\ gmc[p].pc = "construct"
    /\ \E ok \in BOOLEAN :
          IF ok
          THEN /\ circuit_breaker' = [circuit_breaker EXCEPT !.failure_count = 0]
               /\ streak' = 0
               /\ gmc' = [gmc EXCEPT ![p].pc = "rs_state"]
               /\ UNCHANGED <<ml_client, cache_writer>>
          ELSE LET count == circuit_breaker.failure_count + 1
               IN  /\ circuit_breaker.failure_count < MaxFailures
                   /\ circuit_breaker' = [circuit_breaker EXCEPT
                                             !.failure_count = count,
                                             !.last_failure_time = clock.now]
                   /\ streak' = streak + 1
                   /\ IF OpenAtOrAboveThreshold(count)
                      THEN /\ gmc' = [gmc EXCEPT ![p].pc = "rf_state",
                                                 ![p].at = clock.now]
                           /\ UNCHANGED <<ml_client, cache_writer>>
                      ELSE /\ gmc' = [gmc EXCEPT ![p].pc = "idle",
                                                 ![p].result = "ErrConnect",
                                                 ![p].at = clock.now]
                           /\ ml_client' = NoClient
                           /\ cache_writer' = 0
    /\ UNCHANGED clock
    /\ UNCHANGED outsideGateway

\* record_success: *state = Closed; then *cache = Some(..) and Ok(client).
GmcRecordSuccess(p) ==
    /\ gmc[p].pc = "rs_state"
    /\ circuit_breaker' = [circuit_breaker EXCEPT !.state = "Closed"]
    /\ ml_client' = [present |-> TRUE, created_at |-> clock.now]
    /\ cache_writer' = 0
    /\ gmc' = [gmc EXCEPT ![p].pc = "idle", ![p].result = "Ok"]
    /\ UNCHANGED <<clock, streak>>
    /\ UNCHANGED outsideGateway

\* record_failure: *state = Open; then *cache = None and Err(..).
GmcRecordFailure(p) ==
    /\ gmc[p].pc = "rf_state"
    /\ circuit_breaker' = [circuit_breaker EXCEPT !.state = "Open"]
    /\ ml_client' = NoClient
    /\ cache_writer' = 0
    /\ gmc' = [gmc EXCEPT ![p].pc = "idle", ![p].result = "ErrConnect"]
    /\ UNCHANGED <<clock, streak>>
    /\ UNCHANGED outsideGateway

\* An RPC whose error is reported to the breaker as record_ml_failure does.
RpcRecorded(breaker, ok) == IF ok THEN breaker ELSE [breaker EXCEPT !.failure_count = @ + 1, !.last_failure_time = clock.now]

\* What the answer of an RPC does to the breaker. No caller hands it to the
\* breaker: the Err arm of get_garak_status counts consecutive_failures of
\* the loop, the handlers of guard.rs map it to a response, and
\* record_ml_success, record_ml_failure and invalidate_ml_client have no
\* caller.
AfterRpc(breaker, ok) == breaker

\* A caller that was handed a client issues an RPC on it (get_garak_status,
\* scan_prompt, ...), which answers Ok or Err.
GmcRpc(p) ==
    /\ gmc[p].pc = "idle"
    /\ gmc[p].result = "Ok"
    /\ \E ok \in BOOLEAN :
          /\ circuit_breaker' = AfterRpc(circuit_breaker, ok)
          /\ gmc' = [gmc EXCEPT ![p].result = IF ok THEN "RpcOk" ELSE "RpcErr"]
    /\ UNCHANGED <<clock, ml_client, cache_writer, streak>>
    /\ UNCHANGED outsideGateway

\* Time passes for the gateway.
GatewayTickSteps == {1, CIRCUIT_RESET_TIMEOUT_SECS - 1, CLIENT_CACHE_TTL_SECS}

GatewayTick(d) ==
    /\ Tick(d)
    /\ UNCHANGED gatewayVars
    /\ UNCHANGED outsideGateway

(***************************************************************************)
(* The store.  A key holds a value and a time to live: -2 when the key is  *)
(* absent, -1 when it has no expiry, else the seconds left.                *)
(***************************************************************************)
RateKey == "ratelimit"
MonthKey == "quota:monthly"

NoKey == [val |-> 0, ttl |-> -2]

\* An increment by one whatever the amount asked for.
RedisIncrByOne(k, n) == [redis EXCEPT ![k] = [val |-> @.val + 1, ttl |-> IF @.ttl = -2 THEN -1 ELSE @.ttl]]

\* INCRBY key n: an absent key is created without expiry.
RedisIncr(k, n) ==
    [redis EXCEPT ![k] = [val |-> @.val + n,
                          ttl |-> IF @.ttl = -2 THEN -1 ELSE @.ttl]]

\* EXPIRE key seconds: nothing happens to an absent key.
RedisExpire(k, seconds) ==
    [redis EXCEPT ![k].ttl = IF @ = -2 THEN -2 ELSE seconds]

\* The store after d seconds: a key whose time is over is deleted.
Aged(d) ==
    [k \in DOMAIN redis |->
        IF redis[k].ttl < 0 THEN redis[k]
        ELSE IF redis[k].ttl - d < 0 THEN NoKey
        ELSE [redis[k] EXCEPT !.ttl = @ - d]]

\* Subtraction that does not stop at 0.
PlainSub(a, b) == a - b

\* u32::saturating_sub
SaturatingSub(a, b) == IF a > b THEN a - b ELSE 0

\* i64::max
Max(a, b) == IF a >= b THEN a ELSE b

NoOut == [kind |-> "", allowed |-> FALSE, remaining |-> 0, retry_after |-> 0]

ReqIdle == [pc |-> "idle", n |-> 0, new_count |-> 0, out |-> NoOut]

(***************************************************************************)
(* check_rate_limit(redis_conn, key, max_requests, window_seconds)         *)
(***************************************************************************)
\* GET (an error reads as 0) and the comparison with max_requests.
RlGet(r) ==
    /\ req[r].pc = "idle"
    /\ \E ok \in env.outcomes :
          LET current == IF ok THEN redis[RateKey].val ELSE 0
          IN  req' = [req EXCEPT ![r] =
                 [ReqIdle EXCEPT !.pc = IF current >= env.rate_limit_rpm
                                        THEN "rl_deny" ELSE "rl_incr"]]
    /\ UNCHANGED <<env, clock, redis>>
    /\ UNCHANGED outsideStore

\* At the limit: TTL (an error reads as 0), return (false, 0, ttl.max(0)).
RlDeny(r) ==
    /\ req[r].pc = "rl_deny"
    /\ \E ok \in env.outcomes :
          LET ttl == IF ok THEN redis[RateKey].ttl ELSE 0
          IN  req' = [req EXCEPT ![r].pc = "idle",
                                 ![r].out = [kind |-> "Ok", allowed |-> FALSE,
                                             remaining |-> 0,
                                             retry_after |-> Max(ttl, 0)]]
    /\ UNCHANGED <<env, clock, redis>>
    /\ UNCHANGED outsideStore

\* INCR key 1; an error is returned to the caller.
RlIncr(r) ==
    /\ req[r].pc = "rl_incr"
    /\ \E ok \in env.outcomes :
          IF ok
          THEN /\ redis[RateKey].val < MaxCount
               /\ redis' = RedisIncr(RateKey, 1)
               /\ req' = [req EXCEPT ![r].new_count = redis'[RateKey].val,
                                     ![r].pc = IF redis'[RateKey].val = 1
                                               THEN "rl_expire" ELSE "rl_ttl"]
          ELSE /\ req' = [req EXCEPT ![r].pc = "idle", ![r].out.kind = "Err"]
               /\ UNCHANGED redis
    /\ UNCHANGED <<env, clock>>
    /\ UNCHANGED outsideStore

\* EXPIRE key window_seconds after the first request; an error is returned.
RlExpire(r) ==
    /\ req[r].pc = "rl_expire"
    /\ \E ok \in env.outcomes :
          IF ok
          THEN /\ redis' = RedisExpire(RateKey, RATE_LIMIT_WINDOW_SECONDS)
               /\ req' = [req EXCEPT ![r].pc = "rl_ttl"]
          ELSE /\ req' = [req EXCEPT ![r].pc = "idle", ![r].out.kind = "Err"]
               /\ UNCHANGED redis
    /\ UNCHANGED <<env, clock>>
    /\ UNCHANGED outsideStore

\* TTL (an error reads as window_seconds), remaining, and
\* return (true, remaining, ttl.max(0)).
RlTtl(r) ==
    /\ req[r].pc = "rl_ttl"
    /\ \E ok \in env.outcomes :
          LET ttl == IF ok THEN redis[RateKey].ttl ELSE RATE_LIMIT_WINDOW_SECONDS
              remaining == SaturatingSub(env.rate_limit_rpm, req[r].new_count)
          IN  req' = [req EXCEPT ![r].pc = "idle",
                                 ![r].out = [kind |-> "Ok", allowed |-> TRUE,
                                             remaining |-> remaining,
                                             retry_after |-> Max(ttl, 0)]]
    /\ UNCHANGED <<env, clock, redis>>
    /\ UNCHANGED outsideStore

\* Time passes for the store.
StoreTick(d) ==
    /\ Tick(d)
    /\ redis' = Aged(d)
    /\ UNCHANGED <<env, req>>
    /\ UNCHANGED outsideStore

RateTickSteps == {1, RATE_LIMIT_WINDOW_SECONDS - 1}

(***************************************************************************)
(* check_monthly_quota(redis_conn, api_key_id, monthly_limit): the single  *)
(* request                                                                 *)
(***************************************************************************)
QuotaOut(kind, allowed) ==
    [kind |-> kind, allowed |-> allowed, remaining |-> 0, retry_after |-> 0]

\* GET (an error reads as 0) and the comparison with monthly_limit.
MqGet(r) ==
    /\ req[r].pc = "idle"
    /\ \E ok \in env.outcomes :
          LET current == IF ok THEN redis[MonthKey].val ELSE 0
          IN  req' = [req EXCEPT ![r] =
                 [ReqIdle EXCEPT !.n = 1,
                                 !.pc = IF current >= MonthlyLimit
                                        THEN "mq_deny" ELSE "mq_incr"]]
    /\ UNCHANGED <<env, clock, redis>>
    /\ UNCHANGED outsideStore

\* At the limit: TTL, return (false, ..); the handler answers QUOTA_EXCEEDED.
MqDeny(r) ==
    /\ req[r].pc = "mq_deny"
    /\ req' = [req EXCEPT ![r].pc = "idle",
                          ![r].out = QuotaOut("QUOTA_EXCEEDED", FALSE)]
    /\ UNCHANGED <<env, clock, redis>>
    /\ UNCHANGED outsideStore

\* INCR key 1; on an error the handler lets the request through.
MqIncr(r) ==
    /\ req[r].pc = "mq_incr"
    /\ \E ok \in env.outcomes :
          IF ok
          THEN /\ redis[MonthKey].val < MaxCount
               /\ redis' = RedisIncr(MonthKey, 1)
               /\ req' = [req EXCEPT ![r].new_count = redis'[MonthKey].val,
                                     ![r].pc = IF redis'[MonthKey].val = 1
                                               THEN "mq_expire" ELSE "mq_ttl"]
          ELSE /\ req' = [req EXCEPT ![r].pc = "idle",
                                     ![r].out = QuotaOut("Err", TRUE)]
               /\ UNCHANGED redis
    /\ UNCHANGED <<env, clock>>
    /\ UNCHANGED outsideStore

\* EXPIRE key MONTHLY_WINDOW_SECONDS after the first request of the month.
MqExpire(r) ==
    /\ req[r].pc = "mq_expire"
    /\ \E ok \in env.outcomes :
          IF ok
          THEN /\ redis' = RedisExpire(MonthKey, MONTHLY_WINDOW_SECONDS)
               /\ req' = [req EXCEPT ![r].pc = "mq_ttl"]
          ELSE /\ req' = [req EXCEPT ![r].pc = "idle",
                                     ![r].out = QuotaOut("Err", TRUE)]
               /\ UNCHANGED redis
    /\ UNCHANGED <<env, clock>>
    /\ UNCHANGED outsideStore

\* TTL, return (true, new_count, ..): the request is admitted.
MqTtl(r) ==
    /\ req[r].pc = "mq_ttl"
    /\ req' = [req EXCEPT ![r].pc = "idle", ![r].out = QuotaOut("Ok", TRUE)]
    /\ UNCHANGED <<env, clock, redis>>
    /\ UNCHANGED outsideStore

(***************************************************************************)
(* batch_scan: check_monthly_quota_remaining, then increment_monthly_quota *)
(***************************************************************************)
\* GET (an error reads as 0), remaining = monthly_limit.saturating_sub(current),
\* and the handler's comparison with the batch size.
BqPeek(r, n) ==
    /\ req[r].pc = "idle"
    /\ \E ok \in env.outcomes :
          LET current == IF ok THEN redis[MonthKey].val ELSE 0
              remaining == SaturatingSub(MonthlyLimit, current)
          IN  req' = [req EXCEPT ![r] =
                 IF remaining < n
                 THEN [ReqIdle EXCEPT !.n = n,
                                      !.out = QuotaOut("QUOTA_EXCEEDED", FALSE)]
                 ELSE [ReqIdle EXCEPT !.n = n, !.pc = "bq_incr"]]
    /\ UNCHANGED <<env, clock, redis>>
    /\ UNCHANGED outsideStore

\* INCRBY key count; an error is logged by the handler, which goes on.
BqIncr(r) ==
    /\ req[r].pc = "bq_incr"
    /\ \E ok \in env.outcomes :
          IF ok
          THEN /\ redis[MonthKey].val + req[r].n <= MaxCount
               /\ redis' = RedisIncr(MonthKey, req[r].n)
               /\ req' = [req EXCEPT ![r].new_count = redis'[MonthKey].val,
                                     ![r].pc = "bq_ttl"]
          ELSE /\ req' = [req EXCEPT ![r].pc = "idle",
                                     ![r].out = QuotaOut("Err", TRUE)]
               /\ UNCHANGED redis
    /\ UNCHANGED <<env, clock>>
    /\ UNCHANGED outsideStore

\* TTL (an error reads as -1); a key without expiry goes on to EXPIRE.
BqTtl(r) ==
    /\ req[r].pc = "bq_ttl"
    /\ \E ok \in env.outcomes :
          LET ttl == IF ok THEN redis[MonthKey].ttl ELSE -1
          IN  req' = [req EXCEPT ![r] =
                 IF ttl < 0
                 THEN [@ EXCEPT !.pc = "bq_expire"]
                 ELSE [@ EXCEPT !.pc = "idle", !.out = QuotaOut("Ok", TRUE)]]
    /\ UNCHANGED <<env, clock, redis>>
    /\ UNCHANGED outsideStore

\* EXPIRE key MONTHLY_WINDOW_SECONDS; the batch is admitted either way.
BqExpire(r) ==
    /\ req[r].pc = "bq_expire"
    /\ \E ok \in env.outcomes :
          /\ redis' = IF ok THEN RedisExpire(MonthKey, MONTHLY_WINDOW_SECONDS)
                      ELSE redis
          /\ req' = [req EXCEPT ![r].pc = "idle",
                                ![r].out = QuotaOut(IF ok THEN "Ok" ELSE "Err", TRUE)]
    /\ UNCHANGED <<env, clock>>
    /\ UNCHANGED outsideStore

MonthTickSteps == {MONTHLY_WINDOW_SECONDS}

(***************************************************************************)
(* The guard-log write buffer (db/write_buffer.rs)                         *)
(***************************************************************************)
\* An entry that keeps whatever text the handler passed.
new_scan_keeping_text(organization_id, is_safe, latency_ms, cached, prompt_text, request_type) ==
    [organization_id |-> organization_id,
     is_safe |-> is_safe,
     latency_ms |-> latency_ms,
     cached |-> cached,
     prompt_text |-> prompt_text,
     request_type |-> request_type]

\* GuardLogEntry::new_scan: the prompt text is kept only for a threat. An
\* Option is a sequence: <<>> is None, <<text>> is Some(text).
new_scan(organization_id, is_safe, latency_ms, cached, prompt_text, request_type) ==
    [organization_id |-> organization_id,
     is_safe |-> is_safe,
     latency_ms |-> latency_ms,
     cached |-> cached,
     prompt_text |-> IF is_safe THEN <<>> ELSE prompt_text,
     request_type |-> request_type]

\* A channel without a capacity.
queue_unbounded(wb, entry) == [wb EXCEPT !.chan = Append(@, entry)]

\* WriteBufferHandle::queue: tx.try_send(entry); a full channel drops the
\* entry, a warning is logged (warned counts them), and the call returns.
queue(wb, entry) ==
    IF Len(wb.chan) < ChannelCapacity
    THEN [wb EXCEPT !.chan = Append(@, entry)]
    ELSE [wb EXCEPT !.warned = @ + 1]

\* A flush that publishes the events of a batch whatever its INSERT answered.
flush_batch_unchecked(entries, ok, sent) ==
    LET event(e) == [organization_id |-> e.organization_id, is_safe |-> e.is_safe,
                     latency_ms |-> e.latency_ms, cached |-> e.cached,
                     request_type |-> e.request_type]
        published[i \in 0..Len(entries)] ==
            IF i = 0 THEN <<>>
            ELSE IF i \in sent THEN Append(published[i - 1], event(entries[i]))
            ELSE published[i - 1]
    IN  [c \in DOMAIN sse |->
            IF sse[c].pc = "open"
            THEN [sse[c] EXCEPT !.inbox = @ \o published[Len(entries)]]
            ELSE sse[c]]

\* batch.drain(..) leaving the entries in the batch.
drain_nothing(batch) == batch

\* let entries = batch.drain(..).collect(): what is left in the batch.
drain(batch) == <<>>

\* flush_batch after the drain: the entries go into one INSERT (ok is its
\* answer); when it succeeded, an event is published for every entry whose
\* PUBLISH succeeds (sent holds their positions), and every subscribed stream
\* task has it in its inbox; when it failed, the error is logged.
flush_batch(entries, ok, sent) ==
    LET event(e) == [organization_id |-> e.organization_id, is_safe |-> e.is_safe,
                     latency_ms |-> e.latency_ms, cached |-> e.cached,
                     request_type |-> e.request_type]
        published[i \in 0..Len(entries)] ==
            IF i = 0 THEN <<>>
            ELSE IF i \in sent THEN Append(published[i - 1], event(entries[i]))
            ELSE published[i - 1]
    IN  [c \in DOMAIN sse |->
            IF ok /\ sse[c].pc = "open"
            THEN [sse[c] EXCEPT !.inbox = @ \o published[Len(entries)]]
            ELSE sse[c]]

\* WriteBuffer::run, rx.recv() yields Some(e): the head of the channel moves
\* to the batch, and a batch that has reached its size is flushed.
WbRecv ==
    /\ write_buffer.rx # "exited"
    /\ write_buffer.chan # <<>>
    /\ LET batch == Append(write_buffer.batch, Head(write_buffer.chan))
       IN  IF Len(batch) >= FlushSize
           THEN \E ok \in env.outcomes, sent \in SUBSET (1..Len(batch)) :
                   /\ write_buffer' = [write_buffer EXCEPT
                         !.chan = Tail(@),
                         !.batch = drain(batch),
                         !.flushed = @ + Len(batch),
                         !.guard_log = IF ok THEN @ \o batch ELSE @]
                   /\ sse' = flush_batch(batch, ok, sent)
           ELSE /\ write_buffer' = [write_buffer EXCEPT !.chan = Tail(@),
                                                        !.batch = batch]
                /\ UNCHANGED sse
    /\ UNCHANGED <<env, clock, redis, hist>>
    /\ UNCHANGED outsideSse

\* WriteBuffer::run, flush_timer.tick(): a batch that is not empty is flushed.
WbFlush ==
    /\ write_buffer.rx # "exited"
    /\ write_buffer.batch # <<>>
    /\ \E ok \in env.outcomes, sent \in SUBSET (1..Len(write_buffer.batch)) :
          /\ write_buffer' = [write_buffer EXCEPT
                !.batch = drain(@),
                !.flushed = @ + Len(write_buffer.batch),
                !.guard_log = IF ok THEN @ \o write_buffer.batch ELSE @]
          /\ sse' = flush_batch(write_buffer.batch, ok, sent)
    /\ UNCHANGED <<env, clock, redis, hist>>
    /\ UNCHANGED outsideSse

\* The last WriteBufferHandle is dropped: the channel is closed, and what
\* it holds can still be received.
WbClose ==
    /\ write_buffer.rx = "open"
    /\ write_buffer' = [write_buffer EXCEPT !.rx = "closed"]
    /\ UNCHANGED <<env, clock, redis, hist, sse>>
    /\ UNCHANGED outsideSse

\* WriteBuffer::run, rx.recv() yields None (the channel is closed and
\* empty): a batch that is not empty is flushed, and the task returns.
WbExit ==
    /\ write_buffer.rx = "closed"
    /\ write_buffer.chan = <<>>
    /\ IF write_buffer.batch = <<>>
       THEN /\ write_buffer' = [write_buffer EXCEPT !.rx = "exited"]
            /\ UNCHANGED sse
       ELSE \E ok \in env.outcomes, sent \in SUBSET (1..Len(write_buffer.batch)) :
               /\ write_buffer' = [write_buffer EXCEPT
                     !.rx = "exited",
                     !.batch = drain(@),
                     !.flushed = @ + Len(write_buffer.batch),
                     !.guard_log = IF ok THEN @ \o write_buffer.batch ELSE @]
               /\ sse' = flush_batch(write_buffer.batch, ok, sent)
    /\ UNCHANGED <<env, clock, redis, hist>>
    /\ UNCHANGED outsideSse

(***************************************************************************)
(* batch_scan (api/guard.rs)                                               *)
(***************************************************************************)
\* Prompts of a request: the empty one, a blank one, a word.
PromptPool == {<<>>, <<" ">>, <<"h", "i">>}

\* Request bodies: every list of up to MaxBatch prompts, and the lists of
\* MAX_BATCH_SIZE and MAX_BATCH_SIZE + 1 copies of one prompt.
BatchBodies ==
    SeqsUpTo(PromptPool, MaxBatch) \cup
    {[i \in 1..n |-> p] : p \in PromptPool, n \in {MAX_BATCH_SIZE, MAX_BATCH_SIZE + 1}}

\* A comparison that also turns away a batch of exactly MAX_BATCH_SIZE.
BatchAtOrOverMax(n) == n >= MAX_BATCH_SIZE

\* req.prompts.len() > MAX_BATCH_SIZE
BatchOverMax(n) == n > MAX_BATCH_SIZE

\* before is a history of the request: the per-minute and the monthly
\* counter of the key as the request arrived.
BatIdle ==
    [pc |-> "idle", prompts |-> <<>>, code |-> "", calls |-> 0,
     results |-> <<>>, logged |-> 0, latency_ms |-> 0, before |-> <<0, 0>>]

\* The request arrives (the API key is valid) and its size is validated.
BatValidate(r, prompts) ==
    /\ bat[r].pc = "idle"
    /\ guard[r].pc = "idle"
    /\ bat' = [bat EXCEPT ![r] =
          IF prompts = <<>>
          THEN [BatIdle EXCEPT !.pc = "done", !.prompts = prompts,
                               !.code = "EMPTY_BATCH"]
          ELSE IF BatchOverMax(Len(prompts))
          THEN [BatIdle EXCEPT !.pc = "done", !.prompts = prompts,
                               !.code = "BATCH_TOO_LARGE"]
          ELSE [BatIdle EXCEPT !.pc = "rate", !.prompts = prompts,
                               !.before = <<redis[RateKey].val,
                                            redis[MonthKey].val>>]]
    /\ UNCHANGED <<env, clock, storeVars, guard, scan_cache, write_buffer>>
    /\ UNCHANGED outsideGuard

\* check_rate_limit has returned: a denial, or fewer requests remaining than
\* the batch holds, answers RATE_LIMITED; an error lets the batch through.
BatRateDone(r) ==
    /\ bat[r].pc = "rate"
    /\ req[r].pc = "idle"
    /\ req[r].out.kind # ""
    /\ LET out == req[r].out
           batch_size == Len(bat[r].prompts)
       IN  bat' = [bat EXCEPT ![r] =
              IF out.kind = "Ok" /\ (~out.allowed \/ out.remaining < batch_size)
              THEN [@ EXCEPT !.pc = "done", !.code = "RATE_LIMITED"]
              ELSE [@ EXCEPT !.pc = "quota"]]
    /\ req' = [req EXCEPT ![r] = ReqIdle]
    /\ UNCHANGED <<env, clock, redis, guard, scan_cache, write_buffer>>
    /\ UNCHANGED outsideGuard

\* check_monthly_quota_remaining and increment_monthly_quota have returned:
\* too little quota answers QUOTA_EXCEEDED; otherwise get_ml_client, whose
\* failure answers ML_SERVICE_UNAVAILABLE.
BatQuotaDone(r) ==
    /\ bat[r].pc = "quota"
    /\ req[r].pc = "idle"
    /\ req[r].out.kind # ""
    /\ \E client \in BOOLEAN :
          bat' = [bat EXCEPT ![r] =
             IF req[r].out.kind = "QUOTA_EXCEEDED"
             THEN [@ EXCEPT !.pc = "done", !.code = "QUOTA_EXCEEDED"]
             ELSE IF ~client
             THEN [@ EXCEPT !.pc = "done", !.code = "ML_SERVICE_UNAVAILABLE"]
             ELSE [@ EXCEPT !.pc = "scan"]]
    /\ req' = [req EXCEPT ![r] = ReqIdle]
    /\ UNCHANGED <<env, clock, redis, guard, scan_cache, write_buffer>>
    /\ UNCHANGED outsideGuard

\* One of the scan futures: a blank prompt is an error without a call; any
\* other prompt is sent to the sidecar, which answers safe, threat, or fails.
\* After the last future, total_latency_ms is taken.
BatScanOne(r, answer, latency_ms) ==
    /\ bat[r].pc = "scan"
    /\ LET prompt == bat[r].prompts[Len(bat[r].results) + 1]
           blank == \A i \in DOMAIN prompt : prompt[i] = " "
           last == Len(bat[r].results) + 1 = Len(bat[r].prompts)
       IN  bat' = [bat EXCEPT
              ![r].results = Append(@, IF blank THEN "empty" ELSE answer),
              ![r].calls = IF blank THEN @ ELSE @ + 1,
              ![r].latency_ms = IF last THEN latency_ms ELSE @,
              ![r].pc = IF last THEN "log" ELSE "scan"]
    /\ UNCHANGED <<env, clock, storeVars, guard, scan_cache, write_buffer>>
    /\ UNCHANGED outsideGuard

\* The logging loop: one entry is queued for every item that has a result;
\* after the last item the response is returned.
BatLog(r) ==
    /\ bat[r].pc = "log"
    /\ LET i == bat[r].logged + 1
           result == bat[r].results[i]
           entry == new_scan("org1", result = "safe", bat[r].latency_ms, FALSE,
                             <<bat[r].prompts[i]>>, "batch")
       IN  /\ write_buffer' =
                 IF result \in {"safe", "threat"}
                 THEN queue(write_buffer, entry) ELSE write_buffer
           /\ bat' = [bat EXCEPT ![r].logged = i,
                                 ![r].pc = IF i = Len(bat[r].prompts)
                                           THEN "done" ELSE "log",
                                 ![r].code = IF i = Len(bat[r].prompts)
                                             THEN "OK" ELSE @]
    /\ UNCHANGED <<env, clock, storeVars, guard, scan_cache>>
    /\ UNCHANGED outsideGuard

\* The response is sent; the handler is free for the next request.
BatReturn(r) ==
    /\ bat[r].pc = "done"
    /\ bat' = [bat EXCEPT ![r] = BatIdle]
    /\ UNCHANGED <<env, clock, storeVars, guard, scan_cache, write_buffer>>
    /\ UNCHANGED outsideGuard

(***************************************************************************)
(* scan_prompt, validate_output, advanced_scan (api/guard.rs)              *)
(***************************************************************************)
\* Configurations sent to create_api_key / update_guard_config. A scanner
\* map is a set of scanners, each with its threshold in hundredths.
GuardConfigs ==
    [scan_mode : {"both", "prompt_only", "all"},
     input_scanners : {{[name |-> "inj", threshold |-> t]} : t \in {-1, 0, 101}},
     output_scanners : {{[name |-> "tox", threshold |-> 100]}}]

\* validate_guard_config: Ok(()) or an error (INVALID_GUARD_CONFIG).
validate_guard_config(config) ==
    /\ config.scan_mode \in {"prompt_only", "output_only", "both"}
    /\ \A entry \in config.input_scanners :
          ~(entry.threshold < 0 \/ entry.threshold > 100)
    /\ \A entry \in config.output_scanners :
          ~(entry.threshold < 0 \/ entry.threshold > 100)

\* Requests: the endpoint, the guard_config stored on the API key (one that
\* create / update accepted, or none), the X-Scan-Type header, and the body.
\* A body of scan_prompt or validate_output has one text; a body of
\* advanced_scan carries scanners or goes with a configured key, not both,
\* and has an output when the key is configured.
GuardRequests ==
    {q \in [endpoint : {"scan", "validate", "advanced"},
            guard_config : {<<>>} \cup
                {<<c>> : c \in {g \in GuardConfigs : validate_guard_config(g)}},
            x_scan_type : {None, "prompt", "output", "prompt_only"},
            prompt : {<<"h", "i">>},
            output : {<<>>, <<"o", "k">>},
            scan_mode : {"prompt_only"},
            input_scanners : {{}} \cup {{[name |-> "inj", threshold |-> t]} :
                                             t \in {0, 100, 101}},
            output_scanners : {{}}] :
        /\ q.endpoint = "scan" =>
              q.x_scan_type = None /\ q.output = <<>> /\ q.input_scanners = {}
        /\ q.endpoint = "validate" =>
              /\ q.guard_config = <<>> /\ q.x_scan_type = None
              /\ q.output # <<>> /\ q.input_scanners = {}
        /\ q.endpoint = "advanced" => (q.output # <<>> <=> q.guard_config # <<>>)
        /\ q.input_scanners # {} => q.guard_config = <<>>
        /\ q.x_scan_type # None => q.guard_config # <<>>}

\* parse_scan_mode: Some(mode) or None.
parse_scan_mode(s) ==
    IF s \in {"prompt_only", "output_only", "both"} THEN <<s>> ELSE <<>>

\* A resolve_scan_config that consults the header for every key mode.
resolve_scan_config_any_mode(guard_config, x_scan_type, request) ==
    IF guard_config # <<>> /\ request.input_scanners = {}
                           /\ request.output_scanners = {}
    THEN LET gc == guard_config[1]
             key_mode == IF parse_scan_mode(gc.scan_mode) = <<>> THEN "prompt_only"
                         ELSE parse_scan_mode(gc.scan_mode)[1]
             effective_mode ==
                 IF x_scan_type # None /\ parse_scan_mode(x_scan_type) # <<>>
                 THEN parse_scan_mode(x_scan_type)[1] ELSE key_mode
         IN  [scan_mode |-> effective_mode,
              input_scanners |-> gc.input_scanners,
              output_scanners |-> gc.output_scanners]
    ELSE [scan_mode |-> request.scan_mode,
          input_scanners |-> request.input_scanners,
          output_scanners |-> request.output_scanners]

\* resolve_scan_config(api_key, headers, req)
resolve_scan_config(guard_config, x_scan_type, request) ==
    IF guard_config # <<>> /\ request.input_scanners = {}
                           /\ request.output_scanners = {}
    THEN LET gc == guard_config[1]
             key_mode == IF parse_scan_mode(gc.scan_mode) = <<>> THEN "prompt_only"
                         ELSE parse_scan_mode(gc.scan_mode)[1]
             effective_mode ==
                 IF key_mode = "both" /\ x_scan_type # None
                                      /\ parse_scan_mode(x_scan_type) # <<>>
                 THEN parse_scan_mode(x_scan_type)[1] ELSE key_mode
         IN  [scan_mode |-> effective_mode,
              input_scanners |-> gc.input_scanners,
              output_scanners |-> gc.output_scanners]
    ELSE [scan_mode |-> request.scan_mode,
          input_scanners |-> request.input_scanners,
          output_scanners |-> request.output_scanners]

\* serde_json::to_string(&response): threat_categories is skipped when None.
to_string(response) ==
    [f \in DOMAIN response \
           (IF response.threat_categories = <<>> THEN {"threat_categories"} ELSE {}) |->
        IF f = "threat_categories" THEN response[f][1] ELSE response[f]]

\* A hit whose latency_ms is the time of the lookup.
cache_hit_timed(cached_json, response_id) ==
    [id |-> response_id, safe |-> cached_json.safe,
     sanitized_prompt |-> cached_json.sanitized_prompt,
     threats |-> cached_json.threats, risk_score |-> cached_json.risk_score,
     latency_ms |-> 0, cached |-> TRUE,
     threat_categories |-> IF "threat_categories" \in DOMAIN cached_json
                           THEN <<cached_json.threat_categories>> ELSE <<>>]

\* The cache hit of scan_prompt: serde_json::from_str (a missing
\* threat_categories is None), then a new id and cached = true.
cache_hit(cached_json, response_id) ==
    [id |-> response_id, safe |-> cached_json.safe,
     sanitized_prompt |-> cached_json.sanitized_prompt,
     threats |-> cached_json.threats, risk_score |-> cached_json.risk_score,
     latency_ms |-> cached_json.latency_ms, cached |-> TRUE,
     threat_categories |-> IF "threat_categories" \in DOMAIN cached_json
                           THEN <<cached_json.threat_categories>> ELSE <<>>]

GuardIdle ==
    [pc |-> "idle", code |-> "", rpc |-> "",
     request |-> [endpoint |-> "", guard_config |-> <<>>, x_scan_type |-> None,
                  prompt |-> <<>>, output |-> <<>>, scan_mode |-> "prompt_only",
                  input_scanners |-> {}, output_scanners |-> {}],
     resolved |-> [scan_mode |-> "", input_scanners |-> {}, output_scanners |-> {}],
     response |-> [id |-> 0, safe |-> FALSE, sanitized_prompt |-> <<>>,
                   threats |-> <<>>, risk_score |-> 0, latency_ms |-> 0,
                   cached |-> FALSE, threat_categories |-> <<>>]]

\* The request arrives (the API key is valid); advanced_scan resolves its
\* configuration and validates the texts against the resolved mode.
GuardStart(r, request) ==
    /\ guard[r].pc = "idle"
    /\ bat[r].pc = "idle"
    /\ LET resolved == resolve_scan_config(request.guard_config,
                                           request.x_scan_type, request)
           blank(text) == \A i \in DOMAIN text : text[i] = " "
           code == IF request.endpoint # "advanced" THEN ""
                   ELSE IF resolved.scan_mode \in {"prompt_only", "both"}
                           /\ blank(request.prompt) THEN "MISSING_PROMPT"
                   ELSE IF resolved.scan_mode \in {"output_only", "both"}
                           /\ blank(request.output) THEN "MISSING_OUTPUT"
                   ELSE ""
       IN  guard' = [guard EXCEPT ![r] =
              [GuardIdle EXCEPT !.request = request,
                                !.resolved = IF request.endpoint = "advanced"
                                             THEN resolved ELSE @,
                                !.code = code,
                                !.pc = IF code = "" THEN "limits" ELSE "done"]]
    /\ UNCHANGED <<scanVars, clock, gatewayVars, storeVars, bat, scan_cache,
                   write_buffer, sse, pager, models, scan_log, watch, hist>>

\* check_rate_limit has denied, or check_monthly_quota has returned: a denial
\* answers RATE_LIMITED or QUOTA_EXCEEDED (an error of either check lets the
\* request through). scan_prompt then reads the cache: a hit is answered and
\* logged. Otherwise get_ml_client, whose failure answers
\* ML_SERVICE_UNAVAILABLE.
GuardLimitsDone(r, client) ==
    /\ guard[r].pc = "limits"
    /\ req[r].pc = "idle"
    /\ req[r].out.kind # ""
    /\ req[r].n = 1 \/ (req[r].out.kind = "Ok" /\ ~req[r].out.allowed)
    /\ LET prompt == guard[r].request.prompt
           response == cache_hit(scan_cache[prompt][1], hist.uuids + 1)
       IN  IF ~req[r].out.allowed /\ req[r].out.kind # "Err"
           THEN /\ guard' = [guard EXCEPT ![r].pc = "done",
                                ![r].code = IF req[r].n = 0 THEN "RATE_LIMITED"
                                            ELSE "QUOTA_EXCEEDED"]
                /\ UNCHANGED <<write_buffer, hist>>
           ELSE IF guard[r].request.endpoint = "scan" /\ scan_cache[prompt] # <<>>
           THEN /\ guard' = [guard EXCEPT ![r].pc = "done", ![r].code = "OK",
                                          ![r].response = response]
                /\ write_buffer' = queue(write_buffer,
                      new_scan("org1", response.safe, response.latency_ms, TRUE,
                               <<prompt>>, "scan"))
                /\ hist' = [hist EXCEPT !.uuids = @ + 1]
           ELSE /\ guard' = [guard EXCEPT
                      ![r].pc = IF client THEN "scan" ELSE "done",
                      ![r].code = IF client THEN "" ELSE "ML_SERVICE_UNAVAILABLE"]
                /\ UNCHANGED <<write_buffer, hist>>
    /\ req' = [req EXCEPT ![r] = ReqIdle]
    /\ UNCHANGED <<scanVars, clock, gatewayVars, redis, bat, scan_cache, sse,
                   pager, models, scan_log, watch>>

\* The call of the sidecar (scan_prompt, or advanced_scan for a key that has
\* a guard_config; scan_output; advanced_scan) fails, or answers safe or
\* threat: the response is built, scan_prompt writes it to the cache, the
\* entry is queued.
GuardScan(r, answer, latency_ms) ==
    /\ guard[r].pc = "scan"
    /\ LET q == guard[r].request
           synthetic == [q EXCEPT !.output = <<>>, !.scan_mode = "prompt_only",
                                  !.input_scanners = {}, !.output_scanners = {}]
           resolved ==
               IF q.endpoint = "scan" /\ q.guard_config # <<>>
               THEN [resolve_scan_config(q.guard_config, q.x_scan_type, synthetic)
                        EXCEPT !.scan_mode = "prompt_only"]
               ELSE guard[r].resolved
           rpc == IF q.endpoint = "validate" THEN "scan_output"
                  ELSE IF q.endpoint = "scan" /\ q.guard_config = <<>>
                  THEN "scan_prompt" ELSE "advanced_scan"
           threats == IF answer = "threat" THEN <<"inj">> ELSE <<>>
           response ==
               [id |-> hist.uuids + 1, safe |-> threats = <<>>,
                sanitized_prompt |-> IF answer = "safe" THEN <<q.prompt>> ELSE <<>>,
                threats |-> threats,
                risk_score |-> IF answer = "threat" THEN 90 ELSE 0,
                latency_ms |-> latency_ms, cached |-> FALSE,
                threat_categories |-> IF threats = <<>> THEN <<>> ELSE <<threats>>]
           prompt_text ==
               IF q.endpoint = "scan" THEN <<q.prompt>>
               ELSE IF response.safe THEN <<>>
               ELSE IF q.endpoint = "validate" THEN <<q.output>> ELSE <<q.prompt>>
           request_type ==
               IF q.endpoint # "advanced" THEN q.endpoint
               ELSE IF resolved.scan_mode = "prompt_only" THEN "advanced_prompt"
               ELSE IF resolved.scan_mode = "output_only" THEN "advanced_output"
               ELSE "advanced_both"
       IN  IF answer = "error"
           THEN /\ guard' = [guard EXCEPT ![r].pc = "done", ![r].rpc = rpc,
                                          ![r].resolved = resolved,
                                          ![r].code = "SCAN_FAILED"]
                /\ UNCHANGED <<scan_cache, write_buffer, hist>>
           ELSE /\ guard' = [guard EXCEPT ![r].pc = "done", ![r].rpc = rpc,
                                          ![r].resolved = resolved,
                                          ![r].code = "OK",
                                          ![r].response = response]
                /\ scan_cache' = IF q.endpoint = "scan"
                                 THEN [scan_cache EXCEPT ![q.prompt] =
                                          <<to_string(response)>>]
                                 ELSE scan_cache
                /\ write_buffer' = queue(write_buffer,
                      new_scan("org1", response.safe, latency_ms, FALSE,
                               prompt_text, request_type))
                /\ hist' = [hist EXCEPT !.uuids = @ + 1]
    /\ UNCHANGED <<scanVars, clock, gatewayVars, storeVars, bat, sse, pager, models, scan_log, watch>>

\* An earlier request of the key, run to its end before the others arrive:
\* check_rate_limit and check_monthly_quota have counted it.
EarlierRequest ==
    /\ \A r \in DOMAIN req :
          req[r] = ReqIdle /\ bat[r].pc = "idle" /\ guard[r].pc = "idle"
    /\ redis[RateKey] = NoKey
    /\ redis[MonthKey] = NoKey
    /\ redis' = [redis EXCEPT
          ![RateKey] = [val |-> 1, ttl |-> RATE_LIMIT_WINDOW_SECONDS],
          ![MonthKey] = [val |-> 1, ttl |-> MONTHLY_WINDOW_SECONDS]]
    /\ UNCHANGED <<scanVars, clock, gatewayVars, req, bat, guard, scan_cache,
                   write_buffer, sse, pager, models, scan_log, watch, hist>>

(***************************************************************************)
(* list_guard_logs (api/guard_logs.rs)                                     *)
(***************************************************************************)
\* A comparison of the timestamps alone.
BeforeTimestamp(row, cursor_ts, cursor_id) == row.created_at < cursor_ts

\* The predicate (created_at, id) < (cursor_ts, cursor_id) of the cursor.
BeforeCursor(row, cursor_ts, cursor_id) ==
    \/ row.created_at < cursor_ts
    \/ row.created_at = cursor_ts /\ row.id < cursor_id

\* The INSERT of batch_insert puts a row into guard_log, with the id and
\* the created_at of its entry; the table is left alone once the client
\* has started paging.
LogInsert(id, created_at, is_safe, organization_id) ==
    /\ pager.pc = "idle"
    /\ \A row \in pager.guard_log : row.id # id
    /\ pager' = [pager EXCEPT !.guard_log = @ \cup
          {[id |-> id, created_at |-> created_at, is_safe |-> is_safe,
            organization_id |-> organization_id]}]
    /\ UNCHANGED <<scanVars, clock, gatewayVars, storeVars, bat, guard,
                   scan_cache, write_buffer, sse, models, scan_log, watch, hist>>

\* One request of a member of org1: the first without a cursor, every
\* later one with the next_cursor of the page before and the same filters.
\* An empty page has no next_cursor and ends the iteration.
ListPage(per_page, status) ==
    /\ pager.pc = "idle" \/
          (pager.pc = "paging" /\ per_page = pager.per_page /\ status = pager.status)
    /\ LET limit == IF per_page < 1 THEN 1 ELSE IF per_page > 200 THEN 200
                    ELSE per_page
           cursor_row == {row \in pager.guard_log : row.id = pager.cursor}
           cursor_created_at ==
               IF pager.cursor # 0 /\ cursor_row # {}
               THEN <<(CHOOSE row \in cursor_row : TRUE).created_at>> ELSE <<>>
           rows == {row \in pager.guard_log :
                      /\ row.organization_id = "org1"
                      /\ status = "safe" => row.is_safe
                      /\ status = "threat" => ~row.is_safe
                      /\ cursor_created_at # <<>> =>
                            BeforeCursor(row, cursor_created_at[1], pager.cursor)}
           after(row) == {x \in rows : \/ x.created_at > row.created_at
                                       \/ /\ x.created_at = row.created_at
                                          /\ x.id > row.id}
           logs == [i \in 1..(IF Cardinality(rows) < limit
                              THEN Cardinality(rows) ELSE limit) |->
                      CHOOSE row \in rows : Cardinality(after(row)) = i - 1]
       IN  pager' = [pager EXCEPT
              !.per_page = per_page, !.status = status,
              !.visited = @ \o [i \in DOMAIN logs |-> logs[i].id],
              !.cursor = IF logs = <<>> THEN 0 ELSE logs[Len(logs)].id,
              !.pc = IF logs = <<>> THEN "end" ELSE "paging"]
    /\ UNCHANGED <<scanVars, clock, gatewayVars, storeVars, bat, guard,
                   scan_cache, write_buffer, sse, models, scan_log, watch, hist>>

(***************************************************************************)
(* create_model_config and set_default_model (api/models.rs)               *)
(***************************************************************************)
\* Table model_config of one organisation: id -> <<>> (no row) or
\* <<is_default>>. The first statement of a request of a member: UPDATE ..
\* SET is_default = FALSE for the organisation, whose error is dropped
\* (model_id = 0: create_model_config with is_default = true; otherwise
\* set_default_model of that id).
ModelUnset(h, model_id, ok) ==
    /\ models.req[h].pc = "idle"
    /\ models' = [models EXCEPT
          !.req[h] = [pc |-> "set", model_id |-> model_id, code |-> ""],
          !.model_config = IF ok THEN [id \in DOMAIN @ |->
                                         IF @[id] = <<>> THEN <<>> ELSE <<FALSE>>]
                           ELSE @]
    /\ UNCHANGED <<scanVars, clock, gatewayVars, storeVars, bat, guard,
                   scan_cache, write_buffer, sse, pager, scan_log, watch, hist>>

\* The second statement: the INSERT of a row with is_default = true, or
\* UPDATE .. SET is_default = TRUE WHERE id = model_id.
ModelSet(h, ok) ==
    /\ models.req[h].pc = "set"
    /\ LET model_id == models.req[h].model_id
           free == {id \in DOMAIN models.model_config : models.model_config[id] = <<>>}
           new == CHOOSE id \in free : \A other \in free : id <= other
       IN  /\ model_id = 0 => free # {}
           /\ models' = [models EXCEPT
                 !.req[h].pc = "done",
                 !.req[h].code = IF ~ok THEN IF model_id = 0 THEN "DB_INSERT_FAILED"
                                             ELSE "DB_UPDATE_FAILED"
                                 ELSE "OK",
                 !.model_config =
                     IF ~ok THEN @
                     ELSE IF model_id = 0 THEN [@ EXCEPT ![new] = <<TRUE>>]
                     ELSE [id \in DOMAIN @ |->
                             IF id = model_id /\ @[id] # <<>> THEN <<TRUE>> ELSE @[id]]]
    /\ UNCHANGED <<scanVars, clock, gatewayVars, storeVars, bat, guard,
                   scan_cache, write_buffer, sse, pager, scan_log, watch, hist>>

(***************************************************************************)
(* The guard-events endpoints (api/events.rs)                              *)
(***************************************************************************)
\* Uuid::new_v4() of create_sse_ticket, in the order of creation.
TicketIds == <<"t1", "t2">>

\* format!("{}{}", SSE_TICKET_PREFIX, ticket)
TicketKey(ticket) == "sse_ticket:" \o ticket

\* Requests: the query string (ticket, token) and the headers (the token of
\* Authorization: Bearer, the token of the session cookie); a request
\* carries at most one of the four.
SseRequests ==
    {request \in [ticket : {None, "", "t1"}, token : {None, "s1", "bad"},
                  authorization : {None, "s2"}, cookie : {None, "bad"}] :
        Cardinality({f \in DOMAIN request : request[f] # None}) <= 1}

\* A reading of the request that falls back to the query's token.
TokenFromHeadersOrQuery(request) ==
    IF request.authorization \notin {None, ""} THEN request.authorization
    ELSE IF request.cookie \notin {None, ""} THEN request.cookie
    ELSE request.token

\* extract_session_token_from_headers: the Bearer token if it is not empty,
\* else the cookie's token if it is not empty, else nothing.
extract_session_token_from_headers(request) ==
    IF request.authorization \notin {None, ""} THEN request.authorization
    ELSE IF request.cookie \notin {None, ""} THEN request.cookie
    ELSE None

\* A redemption that reads the ticket and leaves it in the store.
GetOnly(key) == redis

\* GETDEL key: the store afterwards.
GetDel(key) ==
    IF key \in DOMAIN redis THEN [redis EXCEPT ![key] = NoKey] ELSE redis

\* pc is "open" while the pub/sub listener of the connection is subscribed;
\* client is the receiver of the connection's channel, stats the periodic
\* stats emitter, stats_sent the stats_update events it has sent.
\* at: when the request's ticket was presented (history).
SseIdle ==
    [pc |-> "idle", endpoint |-> "", code |-> "", user |-> 0, org |-> None,
     request |-> [ticket |-> None, token |-> None, authorization |-> None,
                  cookie |-> None], ticket |-> None, at |-> 0, inbox |-> <<>>, received |-> <<>>,
     client |-> "none", stats |-> "none", stats_sent |-> 0]

\* validate_session_token: the user of the token, SESSION_INVALID for a
\* token without a session, AUTH_ERROR when the query fails.  Table session
\* joined with "user" holds the tokens s1 of user 1 and s2 of user 2 (users
\* are numbered from 1; 0 stands for no user).
validate_session_token(token, ok) ==
    LET session == [s1 |-> 1, s2 |-> 2]
    IN  IF ~ok THEN [code |-> "AUTH_ERROR", user |-> 0]
        ELSE IF token \in DOMAIN session THEN [code |-> "", user |-> session[token]]
        ELSE [code |-> "SESSION_INVALID", user |-> 0]

\* create_sse_ticket: the session of the headers' token is validated and the
\* ticket is stored with SET key payload EX SSE_TICKET_TTL_SECS.
CreateTicket(c, request) ==
    /\ sse[c].pc = "idle"
    /\ \E db \in env.outcomes, stored \in env.outcomes :
          LET token == extract_session_token_from_headers(request)
              answer == validate_session_token(token, db)
              ticket == TicketIds[Len(hist.tickets) + 1]
              code == IF token = None THEN "SESSION_REQUIRED"
                      ELSE IF answer.code # "" THEN answer.code
                      ELSE IF ~stored THEN "TICKET_ERROR" ELSE "OK"
          IN  /\ code = "OK" => Len(hist.tickets) < Len(TicketIds)
              /\ sse' = [sse EXCEPT ![c] =
                    [SseIdle EXCEPT !.pc = "done", !.endpoint = "ticket",
                                    !.request = request, !.code = code,
                                    !.user = answer.user,
                                    !.ticket = IF code = "OK" THEN ticket ELSE None]]
              /\ redis' = IF code = "OK"
                          THEN [redis EXCEPT ![TicketKey(ticket)] =
                                  [val |-> answer.user, ttl |-> SSE_TICKET_TTL_SECS]]
                          ELSE redis
              /\ hist' = IF code = "OK"
                         THEN [hist EXCEPT !.tickets = Append(@, clock.now)]
                         ELSE hist
    /\ UNCHANGED <<env, clock, write_buffer>>
    /\ UNCHANGED outsideSse

\* A guard_events that looks at the headers before the ticket.
ConnectHeadersFirst(c, request) ==
    /\ sse[c].pc = "idle"
    /\ \E ok \in env.outcomes, db \in env.outcomes :
          LET key == TicketKey(request.ticket)
              payload == IF ok /\ key \in DOMAIN redis /\ redis[key].ttl # -2
                         THEN redis[key].val ELSE 0
              token == extract_session_token_from_headers(request)
              auth == IF token # None THEN validate_session_token(token, db)
                      ELSE IF request.ticket # None
                      THEN IF request.ticket = "" \/ payload = 0
                           THEN [code |-> "TICKET_INVALID", user |-> 0]
                           ELSE [code |-> "", user |-> payload]
                      ELSE [code |-> "SESSION_REQUIRED", user |-> 0]
              redeemed == request.ticket \notin {None, ""} /\ payload # 0
              organization_member == <<{"org1"}, {"org1", "org2"}>>
              orgs == IF auth.user = 0 THEN {} ELSE organization_member[auth.user]
          IN  /\ redis' = IF request.ticket \notin {None, ""} /\ ok
                          THEN GetDel(key) ELSE redis
              /\ \E org \in orgs \cup {None} :
                    /\ org = None <=> orgs = {}
                    /\ sse' = [sse EXCEPT ![c] =
                          [SseIdle EXCEPT
                              !.endpoint = "events", !.request = request,
                              !.user = auth.user,
                              !.at = IF request.ticket # None THEN clock.now ELSE 0,
                              !.ticket = IF redeemed THEN request.ticket ELSE None,
                              !.org = org,
                              !.code = IF auth.code # "" THEN auth.code
                                       ELSE IF org = None THEN "ORG_NOT_FOUND"
                                       ELSE "OK",
                              !.client = IF auth.code = "" /\ org # None
                                         THEN "connected" ELSE "none",
                              !.stats = IF auth.code = "" /\ org # None
                                        THEN "running" ELSE "none",
                              !.pc = IF auth.code = "" /\ org # None
                                     THEN "open" ELSE "done"]]
    /\ UNCHANGED <<env, clock, write_buffer, hist>>
    /\ UNCHANGED outsideSse

\* guard_events up to the subscription: the caller is authenticated by the
\* query's ticket (redeem_sse_ticket), else by the headers' token, else by
\* require_session_from_headers; get_user_org_id picks one organisation of
\* the user (table organization_member: user 1 is in org1, user 2 in org1
\* and org2); the stream task subscribes to guard_log_events.
Connect(c, request) ==
    /\ sse[c].pc = "idle"
    /\ \E ok \in env.outcomes, db \in env.outcomes :
          LET key == TicketKey(request.ticket)
              payload == IF ok /\ key \in DOMAIN redis /\ redis[key].ttl # -2
                         THEN redis[key].val ELSE 0
              token == extract_session_token_from_headers(request)
              auth == IF request.ticket # None
                      THEN IF request.ticket = "" \/ payload = 0
                           THEN [code |-> "TICKET_INVALID", user |-> 0]
                           ELSE [code |-> "", user |-> payload]
                      ELSE IF token # None THEN validate_session_token(token, db)
                      ELSE [code |-> "SESSION_REQUIRED", user |-> 0]
              redeemed == request.ticket \notin {None, ""} /\ payload # 0
              organization_member == <<{"org1"}, {"org1", "org2"}>>
              orgs == IF auth.user = 0 THEN {} ELSE organization_member[auth.user]
          IN  /\ redis' = IF request.ticket \notin {None, ""} /\ ok
                          THEN GetDel(key) ELSE redis
              /\ \E org \in orgs \cup {None} :
                    /\ org = None <=> orgs = {}
                    /\ sse' = [sse EXCEPT ![c] =
                          [SseIdle EXCEPT
                              !.endpoint = "events", !.request = request,
                              !.user = auth.user,
                              !.at = IF request.ticket # None THEN clock.now ELSE 0,
                              !.ticket = IF redeemed THEN request.ticket ELSE None,
                              !.org = org,
                              !.code = IF auth.code # "" THEN auth.code
                                       ELSE IF org = None THEN "ORG_NOT_FOUND"
                                       ELSE "OK",
                              !.client = IF auth.code = "" /\ org # None
                                         THEN "connected" ELSE "none",
                              !.stats = IF auth.code = "" /\ org # None
                                        THEN "running" ELSE "none",
                              !.pc = IF auth.code = "" /\ org # None
                                     THEN "open" ELSE "done"]]
    /\ UNCHANGED <<env, clock, write_buffer, hist>>
    /\ UNCHANGED outsideSse

\* A filter that lets every event through.
AnyOrganization(event, org_id) == TRUE

\* event.organization_id != Some(org_id) skips the event.
OfOrganization(event, org_id) == event.organization_id = org_id

\* The pub/sub listener takes the next message of its subscription: an
\* event of another organisation is skipped, one of the client's
\* organisation is sent to the client as a guard_log event; when that send
\* fails (the receiver is dropped) the listener leaves its loop, aborts the
\* stats emitter and exits.
Forward(c) ==
    /\ sse[c].pc = "open"
    /\ sse[c].inbox # <<>>
    /\ LET mine == OfOrganization(Head(sse[c].inbox), sse[c].org)
           failed == mine /\ sse[c].client # "connected"
       IN  sse' = [sse EXCEPT
              ![c].inbox = IF failed THEN <<>> ELSE Tail(@),
              ![c].received = IF mine /\ ~failed
                              THEN Append(@, Head(sse[c].inbox)) ELSE @,
              ![c].pc = IF failed THEN "exited" ELSE @,
              ![c].stats = IF failed THEN "exited" ELSE @]
    /\ UNCHANGED <<env, clock, redis, write_buffer, hist>>
    /\ UNCHANGED outsideSse

\* The client goes away: the response stream and with it the receiver of
\* the connection's channel are dropped.
Disconnect(c) ==
    /\ sse[c].client = "connected"
    /\ sse' = [sse EXCEPT ![c].client = "gone"]
    /\ UNCHANGED <<env, clock, redis, write_buffer, hist>>
    /\ UNCHANGED outsideSse

\* The stats emitter's interval ticks: it sends a stats_update event, and
\* leaves its loop when the send fails.
StatsTick(c) ==
    /\ sse[c].stats = "running"
    /\ sse[c].client = "connected" => sse[c].stats_sent < MaxStats
    /\ sse' = [sse EXCEPT
          ![c].stats_sent = IF sse[c].client = "connected" THEN @ + 1 ELSE @,
          ![c].stats = IF sse[c].client = "connected" THEN @ ELSE "exited"]
    /\ UNCHANGED <<env, clock, redis, write_buffer, hist>>
    /\ UNCHANGED outsideSse

\* A guard request made with an API key of some organisation ends: the
\* entry of its scan is queued.
GuardEntry(organization_id) ==
    /\ write_buffer.rx = "open"
    /\ hist.entries < MaxEntries
    /\ hist' = [hist EXCEPT !.entries = @ + 1]
    /\ write_buffer' = queue(write_buffer,
          new_scan(organization_id, TRUE, 7, FALSE, <<<<"h", "i">>>>, "scan"))
    /\ UNCHANGED <<env, clock, redis, sse>>
    /\ UNCHANGED outsideSse

(***************************************************************************)
(* Initial states of the parts                                             *)
(***************************************************************************)
InitClock == clock = [now |-> 0, ticks |-> 0]

\* AppState::new: a closed breaker, no cached client, no call in flight.
InitGateway ==
    /\ circuit_breaker = NewBreaker
    /\ ml_client = NoClient
    /\ cache_writer = 0
    /\ gmc = [p \in 1..NumCallers |-> GmcIdle]
    /\ streak = 0

\* An empty store, no request in flight.
InitStore ==
    /\ redis = [k \in {RateKey, MonthKey} \cup
                       {TicketKey(TicketIds[i]) : i \in DOMAIN TicketIds} |-> NoKey]
    /\ req = [r \in 1..NumRequests |-> ReqIdle]

\* An empty write buffer, no guard request in flight.
InitGuard ==
    /\ bat = [r \in 1..NumRequests |-> BatIdle]
    /\ guard = [r \in 1..NumRequests |-> GuardIdle]
    /\ scan_cache = [prompt \in PromptPool |-> <<>>]
    /\ write_buffer = [chan |-> <<>>, batch |-> <<>>, warned |-> 0, rx |-> "open",
                       flushed |-> 0, guard_log |-> <<>>]
    /\ sse = [c \in 1..NumClients |-> SseIdle]
    /\ pager = [pc |-> "idle", guard_log |-> {}, per_page |-> 0, status |-> None,
                cursor |-> 0, visited |-> <<>>]
    /\ models = [model_config |-> [id \in 1..MaxRows |->
                                      IF id = 1 THEN <<TRUE>> ELSE <<>>],
                 req |-> [h \in 1..NumRequests |->
                            [pc |-> "idle", model_id |-> 0, code |-> ""]]]
    /\ hist = [tickets |-> <<>>, entries |-> 0, uuids |-> 0]

(***************************************************************************)
(* The orchestrator with every outcome of every call: NumScans scans,      *)
(* the sidecar reporting any list of vulnerabilities, any call failing.    *)
(***************************************************************************)
ScanIds == 1..NumScans

InitScan(ids, e) ==
    /\ env = e
    /\ scan = [s \in ids |-> NoRow]
    /\ scan_result = [s \in ids |-> <<>>]
    /\ start = [s \in ids |-> StartIdle]
    /\ drv = [s \in ids |-> DrvIdle]
    /\ cancel = [c \in 1..NumCancellers |-> CancelIdle]
    /\ sidecar = [s \in ids |-> [started |-> FALSE, cancels |-> 0]]
    /\ scan_log = [s \in ids |-> <<>>]
    /\ watch = [w \in 1..NumWatchers |-> WatchIdle]
    /\ InitClock
    /\ InitGateway
    /\ InitStore
    /\ InitGuard

Init == InitScan(ScanIds, [pool |-> VulnPool, outcomes |-> BOOLEAN, logs |-> {<<>>},
     rate_limit_rpm |-> RateLimitRpm, counted |-> FALSE])

Next ==
    \/ \E s \in DOMAIN scan : StartCount(s)
    \/ \E s \in DOMAIN scan : StartHealth(s)
    \/ \E s \in DOMAIN scan : StartInsert(s)
    \/ \E s \in DOMAIN scan : DrvSetRunning(s)
    \/ \E s \in DOMAIN scan : DrvGetClient(s)
    \/ \E s \in DOMAIN scan : DrvStartRpc(s)
    \/ \E s \in DOMAIN scan : DrvStoreRemote(s)
    \/ \E s \in DOMAIN scan : DrvPollTick(s)
    \/ \E s \in DOMAIN scan : DrvPollClient(s)
    \/ \E s \in DOMAIN scan : DrvPollStatus(s)
    \/ \E s \in DOMAIN scan : DrvIngestVuln(s)
    \/ \E s \in DOMAIN scan : DrvMatch(s)
    \/ \E s \in DOMAIN scan : DrvFinalVuln(s)
    \/ \E s \in DOMAIN scan : DrvComplete(s)
    \/ \E c \in DOMAIN cancel, s \in DOMAIN scan : CancelRead(c, s)
    \/ \E c \in DOMAIN cancel : CancelRemote(c)
    \/ \E c \in DOMAIN cancel : CancelRpc(c)
    \/ \E c \in DOMAIN cancel : CancelUpdate(c)
    \/ \E c \in DOMAIN cancel : CancelReturn(c)

Spec == Init /\ [][Next]_vars

\* The orchestrator when no call fails, with a sidecar that counts the
\* vulnerabilities it reports, one cancel_scan call, and a client of the
\* scan's event stream.
NextWatch ==
    \/ \E s \in DOMAIN scan : StartCount(s)
    \/ \E s \in DOMAIN scan : StartHealth(s)
    \/ \E s \in DOMAIN scan : StartInsert(s)
    \/ \E s \in DOMAIN scan : DrvSetRunning(s)
    \/ \E s \in DOMAIN scan : DrvGetClient(s)
    \/ \E s \in DOMAIN scan : DrvStartRpc(s)
    \/ \E s \in DOMAIN scan : DrvStoreRemote(s)
    \/ \E s \in DOMAIN scan : DrvPollTick(s)
    \/ \E s \in DOMAIN scan : DrvPollClient(s)
    \/ \E s \in DOMAIN scan : DrvPollStatus(s)
    \/ \E s \in DOMAIN scan : DrvIngestVuln(s)
    \/ \E s \in DOMAIN scan : DrvMatch(s)
    \/ \E s \in DOMAIN scan : DrvFinalVuln(s)
    \/ \E s \in DOMAIN scan : DrvComplete(s)
    \/ \E c \in DOMAIN cancel, s \in DOMAIN scan : cancel[c].calls = 0 /\ CancelRead(c, s)
    \/ \E c \in DOMAIN cancel : CancelRemote(c)
    \/ \E c \in DOMAIN cancel : CancelRpc(c)
    \/ \E c \in DOMAIN cancel : CancelUpdate(c)
    \/ \E w \in DOMAIN watch, s \in DOMAIN scan : ScanEvents(w, s)
    \/ \E w \in DOMAIN watch : WatchConnect(w)
    \/ \E w \in DOMAIN watch, d \in {1, max_iterations - 1} : WatchTick(w, d)
    \/ \E w \in DOMAIN watch : WatchVulns(w)
    \/ \E w \in DOMAIN watch : WatchClose(w)

SpecWatch ==
    /\ InitScan(ScanIds, [pool |-> {"A"}, outcomes |-> {TRUE}, logs |-> {<<>>},
                          rate_limit_rpm |-> RateLimitRpm, counted |-> TRUE])
    /\ [][NextWatch]_vars

\* The orchestrator when no call fails, under the scheduling of the
\* runtime: the task spawned by start_scan is polled until it returns, its
\* interval ticks, and every awaited query and RPC answers.
SpecPoll ==
    /\ InitScan(ScanIds, [pool |-> VulnPool, outcomes |-> {TRUE}, logs |-> {<<>>},
     rate_limit_rpm |-> RateLimitRpm, counted |-> FALSE])
    /\ [][Next]_vars
    /\ WF_vars(\E s \in DOMAIN scan :
                  \/ DrvSetRunning(s) \/ DrvGetClient(s) \/ DrvStartRpc(s)
                  \/ DrvStoreRemote(s) \/ DrvPollTick(s) \/ DrvPollClient(s)
                  \/ DrvPollStatus(s) \/ DrvIngestVuln(s) \/ DrvMatch(s)
                  \/ DrvFinalVuln(s) \/ DrvComplete(s))

(***************************************************************************)
(* The probe logs: one scan whose sidecar reports no vulnerabilities and   *)
(* up to MaxLogs probe logs in each status response, any call failing.     *)
(***************************************************************************)
NextProbe ==
    \/ \E s \in DOMAIN scan : StartCount(s)
    \/ \E s \in DOMAIN scan : StartHealth(s)
    \/ \E s \in DOMAIN scan : StartInsert(s)
    \/ \E s \in DOMAIN scan : DrvSetRunning(s)
    \/ \E s \in DOMAIN scan : DrvGetClient(s)
    \/ \E s \in DOMAIN scan : DrvStartRpc(s)
    \/ \E s \in DOMAIN scan : DrvStoreRemote(s)
    \/ \E s \in DOMAIN scan : DrvPollTick(s)
    \/ \E s \in DOMAIN scan : DrvPollClient(s)
    \/ \E s \in DOMAIN scan : DrvPollStatus(s)
    \/ \E s \in DOMAIN scan : DrvIngestLog(s)
    \/ \E s \in DOMAIN scan : DrvMatch(s)
    \/ \E s \in DOMAIN scan : DrvComplete(s)

\* Two probes of one class, each reported as running or as completed.
SpecProbe ==
    /\ InitScan(ScanIds,
                [pool |-> {}, outcomes |-> BOOLEAN,
                 logs |-> SeqsUpTo([probe_name : {<<"p", "1">>, <<"p", "2">>},
                                    probe_class : {<<"c">>},
                                    status : {"running", "completed"}], MaxLogs),
                 rate_limit_rpm |-> RateLimitRpm, counted |-> FALSE])
    /\ [][NextProbe]_vars

(***************************************************************************)
(* The concurrency gate: the table already holds MAX_CONCURRENT_SCANS - 1  *)
(* active rows whose drivers have ended (run_garak_scan returns on a       *)
(* failed UPDATE and leaves 'queued'; mark_scan_failed drops a failed      *)
(* UPDATE and leaves 'running'), and NumRacers start_scan requests arrive. *)
(* The sidecar reports no vulnerabilities here.                            *)
(***************************************************************************)
StaleIds == 1..(MAX_CONCURRENT_SCANS - 1)
GateIds == 1..(MAX_CONCURRENT_SCANS - 1 + NumRacers)

InitGate ==
    /\ env = [pool |-> {}, outcomes |-> {TRUE}, logs |-> {<<>>},
     rate_limit_rpm |-> RateLimitRpm, counted |-> FALSE]
    /\ \E st \in Active :
          scan = [s \in GateIds |->
                    IF s \in StaleIds
                    THEN [NoRow EXCEPT !.status = st, !.created_by = Creator]
                    ELSE NoRow]
    /\ scan_result = [s \in GateIds |-> <<>>]
    /\ start = [s \in GateIds |->
                  IF s \in StaleIds THEN [pc |-> "done", resp |-> "queued"] ELSE StartIdle]
    /\ drv = [s \in GateIds |->
                IF s \in StaleIds THEN [DrvIdle EXCEPT !.pc = "done"] ELSE DrvIdle]
    /\ cancel = [c \in 1..NumCancellers |-> CancelIdle]
    /\ sidecar = [s \in GateIds |-> [started |-> FALSE, cancels |-> 0]]
    /\ scan_log = [s \in GateIds |-> <<>>]
    /\ watch = [w \in 1..NumWatchers |-> WatchIdle]
    /\ InitClock
    /\ InitGateway
    /\ InitStore
    /\ InitGuard

NextGate ==
    \/ \E s \in DOMAIN scan : StartCount(s)
    \/ \E s \in DOMAIN scan : StartHealth(s)
    \/ \E s \in DOMAIN scan : StartInsert(s)
    \/ \E s \in DOMAIN scan : DrvSetRunning(s)
    \/ \E s \in DOMAIN scan : DrvGetClient(s)
    \/ \E s \in DOMAIN scan : DrvStartRpc(s)
    \/ \E s \in DOMAIN scan : DrvStoreRemote(s)
    \/ \E s \in DOMAIN scan : DrvPollTick(s)
    \/ \E s \in DOMAIN scan : DrvPollClient(s)
    \/ \E s \in DOMAIN scan : DrvPollStatus(s)
    \/ \E s \in DOMAIN scan : DrvMatch(s)
    \/ \E s \in DOMAIN scan : DrvComplete(s)
    \/ \E c \in DOMAIN cancel, s \in DOMAIN scan : CancelRead(c, s)
    \/ \E c \in DOMAIN cancel : CancelRemote(c)
    \/ \E c \in DOMAIN cancel : CancelRpc(c)
    \/ \E c \in DOMAIN cancel : CancelUpdate(c)
    \/ \E c \in DOMAIN cancel : CancelReturn(c)

SpecGate == InitGate /\ [][NextGate]_vars

(***************************************************************************)
(* The gateway: NumCallers concurrent get_ml_client calls, every           *)
(* construction succeeding or failing, time passing.                       *)
(***************************************************************************)
\* No scan exists; the gateway and the store are as the server starts them.
InitIdle == InitScan({}, [pool |-> {}, outcomes |-> BOOLEAN, logs |-> {<<>>},
     rate_limit_rpm |-> RateLimitRpm, counted |-> FALSE])

NextBreaker ==
    \/ \E p \in DOMAIN gmc : GmcCanAttempt(p)
    \/ \E p \in DOMAIN gmc : GmcCheckTimeout(p)
    \/ \E p \in DOMAIN gmc : GmcHalfOpen(p)
    \/ \E p \in DOMAIN gmc : GmcCacheRead(p)
    \/ \E p \in DOMAIN gmc : GmcCacheWrite(p)
    \/ \E p \in DOMAIN gmc : GmcConstruct(p)
    \/ \E p \in DOMAIN gmc : GmcRecordSuccess(p)
    \/ \E p \in DOMAIN gmc : GmcRecordFailure(p)
    \/ \E p \in DOMAIN gmc : GmcRpc(p)
    \/ \E d \in GatewayTickSteps : GatewayTick(d)

SpecBreaker == InitIdle /\ [][NextBreaker]_vars

(***************************************************************************)
(* The per-minute limiter: NumRequests concurrent check_rate_limit calls   *)
(* on one key, every store command succeeding or failing, time passing.    *)
(***************************************************************************)
NextLimiter ==
    \/ \E r \in DOMAIN req : RlGet(r)
    \/ \E r \in DOMAIN req : RlDeny(r)
    \/ \E r \in DOMAIN req : RlIncr(r)
    \/ \E r \in DOMAIN req : RlExpire(r)
    \/ \E r \in DOMAIN req : RlTtl(r)
    \/ \E d \in RateTickSteps : StoreTick(d)

SpecLimiter == InitIdle /\ [][NextLimiter]_vars

(***************************************************************************)
(* The monthly quota: NumRequests concurrent requests of one key, each a   *)
(* single scan or a batch of 1..MaxBatch prompts, every store command      *)
(* succeeding.                                                             *)
(***************************************************************************)
InitQuota == InitScan({}, [pool |-> {}, outcomes |-> {TRUE}, logs |-> {<<>>},
     rate_limit_rpm |-> RateLimitRpm, counted |-> FALSE])

NextQuota ==
    \/ \E r \in DOMAIN req : MqGet(r)
    \/ \E r \in DOMAIN req : MqDeny(r)
    \/ \E r \in DOMAIN req : MqIncr(r)
    \/ \E r \in DOMAIN req : MqExpire(r)
    \/ \E r \in DOMAIN req : MqTtl(r)
    \/ \E r \in DOMAIN req, n \in 1..MaxBatch : BqPeek(r, n)
    \/ \E r \in DOMAIN req : BqIncr(r)
    \/ \E r \in DOMAIN req : BqTtl(r)
    \/ \E r \in DOMAIN req : BqExpire(r)
    \/ \E d \in MonthTickSteps : StoreTick(d)

SpecQuota == InitQuota /\ [][NextQuota]_vars

\* The calls of the per-minute limiter with a store whose every command
\* succeeds.
SpecRace == InitQuota /\ [][NextLimiter]_vars

(***************************************************************************)
(* The guard endpoints: NumRequests concurrent requests of one API key,    *)
(* every store command succeeding, the sidecar answering each prompt with  *)
(* safe, threat or an error, the flush task running alongside.             *)
(***************************************************************************)
NextGuard ==
    \/ \E r \in DOMAIN bat, prompts \in BatchBodies : BatValidate(r, prompts)
    \/ \E r \in DOMAIN guard,
          request \in {q \in GuardRequests : q.guard_config = <<>>} :
          GuardStart(r, request)
    \/ \E r \in DOMAIN bat : (bat[r].pc = "rate" \/ guard[r].pc = "limits")
                                /\ req[r].out.kind = "" /\ RlGet(r)
    \/ \E r \in DOMAIN bat : RlDeny(r)
    \/ \E r \in DOMAIN bat : RlIncr(r)
    \/ \E r \in DOMAIN bat : RlExpire(r)
    \/ \E r \in DOMAIN bat : RlTtl(r)
    \/ \E r \in DOMAIN bat : BatRateDone(r)
    \/ \E r \in DOMAIN bat : bat[r].pc = "quota" /\ req[r].out.kind = ""
                                /\ BqPeek(r, Len(bat[r].prompts))
    \/ \E r \in DOMAIN bat : BqIncr(r)
    \/ \E r \in DOMAIN bat : BqTtl(r)
    \/ \E r \in DOMAIN bat : BqExpire(r)
    \/ \E r \in DOMAIN bat : BatQuotaDone(r)
    \/ \E r \in DOMAIN bat, answer \in {"safe", "threat", "error"},
          latency_ms \in {7, 9} : BatScanOne(r, answer, latency_ms)
    \/ \E r \in DOMAIN bat : BatLog(r)
    \/ \E r \in DOMAIN guard :
          /\ guard[r].pc = "limits" /\ req[r].n = 0 /\ req[r].out.kind # ""
          /\ req[r].out.allowed \/ req[r].out.kind = "Err"
          /\ MqGet(r)
    \/ \E r \in DOMAIN guard : MqDeny(r)
    \/ \E r \in DOMAIN guard : MqIncr(r)
    \/ \E r \in DOMAIN guard : MqExpire(r)
    \/ \E r \in DOMAIN guard : MqTtl(r)
    \/ \E r \in DOMAIN guard, client \in BOOLEAN : GuardLimitsDone(r, client)
    \/ \E r \in DOMAIN guard, answer \in {"safe", "threat", "error"},
          latency_ms \in {7, 9} : GuardScan(r, answer, latency_ms)
    \/ EarlierRequest
    \/ WbRecv
    \/ WbFlush

SpecGuard == InitQuota /\ [][NextGuard]_vars

(***************************************************************************)
(* batch_scan alone: requests of batches of 1..MaxBatch prompts follow one *)
(* another on NumRequests connections of a key whose rate_limit_rpm leaves *)
(* room for a whole batch; every store command succeeds.                   *)
(***************************************************************************)
NextBatch ==
    \/ \E r \in DOMAIN bat, prompts \in SeqsUpTo(PromptPool \ {<<>>}, MaxBatch) :
          BatValidate(r, prompts)
    \/ \E r \in DOMAIN bat : bat[r].pc = "rate" /\ req[r].out.kind = "" /\ RlGet(r)
    \/ \E r \in DOMAIN bat : RlDeny(r)
    \/ \E r \in DOMAIN bat : RlIncr(r)
    \/ \E r \in DOMAIN bat : RlExpire(r)
    \/ \E r \in DOMAIN bat : RlTtl(r)
    \/ \E r \in DOMAIN bat : BatRateDone(r)
    \/ \E r \in DOMAIN bat : bat[r].pc = "quota" /\ req[r].out.kind = ""
                                /\ BqPeek(r, Len(bat[r].prompts))
    \/ \E r \in DOMAIN bat : BqIncr(r)
    \/ \E r \in DOMAIN bat : BqTtl(r)
    \/ \E r \in DOMAIN bat : BqExpire(r)
    \/ \E r \in DOMAIN bat : BatQuotaDone(r)
    \/ \E r \in DOMAIN bat, answer \in {"safe", "error"} :
          BatScanOne(r, answer, 7)
    \/ \E r \in DOMAIN bat : BatLog(r)
    \/ \E r \in DOMAIN bat : BatReturn(r)

SpecBatch ==
    /\ InitScan({}, [pool |-> {}, outcomes |-> {TRUE}, logs |-> {<<>>},
                     rate_limit_rpm |-> MaxBatch + 1, counted |-> FALSE])
    /\ [][NextBatch]_vars

(***************************************************************************)
(* scan_prompt, validate_output and advanced_scan with every request:      *)
(* NumRequests concurrent requests of one API key, with or without a       *)
(* stored guard_config, a header, scanners in the body. The flush task,    *)
(* which these handlers never wait for, takes no step.                     *)
(***************************************************************************)
NextScan ==
    \/ \E r \in DOMAIN guard, request \in GuardRequests : GuardStart(r, request)
    \/ \E r \in DOMAIN guard : guard[r].pc = "limits" /\ req[r].out.kind = ""
                                  /\ RlGet(r)
    \/ \E r \in DOMAIN guard : RlDeny(r)
    \/ \E r \in DOMAIN guard : RlIncr(r)
    \/ \E r \in DOMAIN guard : RlExpire(r)
    \/ \E r \in DOMAIN guard : RlTtl(r)
    \/ \E r \in DOMAIN guard :
          /\ guard[r].pc = "limits" /\ req[r].n = 0 /\ req[r].out.kind # ""
          /\ req[r].out.allowed \/ req[r].out.kind = "Err"
          /\ MqGet(r)
    \/ \E r \in DOMAIN guard : MqDeny(r)
    \/ \E r \in DOMAIN guard : MqIncr(r)
    \/ \E r \in DOMAIN guard : MqExpire(r)
    \/ \E r \in DOMAIN guard : MqTtl(r)
    \/ \E r \in DOMAIN guard, client \in BOOLEAN : GuardLimitsDone(r, client)
    \/ \E r \in DOMAIN guard, answer \in {"safe", "threat", "error"},
          latency_ms \in {7, 9} : GuardScan(r, answer, latency_ms)
    \/ EarlierRequest

SpecScan == InitQuota /\ [][NextScan]_vars

(***************************************************************************)
(* advanced_scan alone, for keys that have a stored guard_config of each   *)
(* scan_mode, asked without scanner maps and with every kind of            *)
(* X-Scan-Type header: absent, a recognised mode, an unrecognised value.   *)
(***************************************************************************)
HeaderRequests ==
    [endpoint : {"advanced"},
     guard_config : {<<[scan_mode |-> m,
                        input_scanners |-> {[name |-> "inj", threshold |-> 0]},
                        output_scanners |-> {[name |-> "tox", threshold |-> 100]}]>> :
                        m \in {"prompt_only", "output_only", "both"}},
     x_scan_type : {None, "prompt", "prompt_only", "output_only", "both"},
     prompt : {<<"h", "i">>},
     output : {<<"o", "k">>},
     scan_mode : {"prompt_only"},
     input_scanners : {{}},
     output_scanners : {{}}]

NextResolve ==
    \/ \E r \in DOMAIN guard, request \in HeaderRequests : GuardStart(r, request)
    \/ \E r \in DOMAIN guard : guard[r].pc = "limits" /\ req[r].out.kind = ""
                                  /\ RlGet(r)
    \/ \E r \in DOMAIN guard : RlDeny(r)
    \/ \E r \in DOMAIN guard : RlIncr(r)
    \/ \E r \in DOMAIN guard : RlExpire(r)
    \/ \E r \in DOMAIN guard : RlTtl(r)
    \/ \E r \in DOMAIN guard :
          /\ guard[r].pc = "limits" /\ req[r].n = 0 /\ req[r].out.kind # ""
          /\ req[r].out.allowed \/ req[r].out.kind = "Err"
          /\ MqGet(r)
    \/ \E r \in DOMAIN guard : MqDeny(r)
    \/ \E r \in DOMAIN guard : MqIncr(r)
    \/ \E r \in DOMAIN guard : MqExpire(r)
    \/ \E r \in DOMAIN guard : MqTtl(r)
    \/ \E r \in DOMAIN guard, client \in BOOLEAN : GuardLimitsDone(r, client)
    \/ \E r \in DOMAIN guard, answer \in {"safe", "error"} : GuardScan(r, answer, 7)
    \/ EarlierRequest

SpecResolve == InitQuota /\ [][NextResolve]_vars

(***************************************************************************)
(* scan_prompt and its cache: NumRequests requests for one prompt, sent    *)
(* with API keys that carry no guard_config (the body's check_injection    *)
(* option decides what the sidecar runs) or a guard_config with one input  *)
(* scanner. The sidecar is a function of what it is sent: env.verdict      *)
(* gives its answer for every policy, and a call can also fail.            *)
(***************************************************************************)
CacheRequests ==
    [endpoint : {"scan"},
     guard_config : {<<>>} \cup
         {<<[scan_mode |-> "prompt_only",
             input_scanners |-> {[name |-> "inj", threshold |-> t]},
             output_scanners |-> {}]>> : t \in {0, 100}},
     x_scan_type : {None},
     prompt : {<<"h", "i">>},
     output : {<<>>},
     scan_mode : {"prompt_only"},
     input_scanners : {{}},
     output_scanners : {{}},
     check_injection : BOOLEAN]

\* What scan_prompt sends to the sidecar besides the prompt: the scanners of
\* the key's guard_config with advanced_scan, or the request's options with
\* the legacy scan_prompt call.
ScanPolicy(q) ==
    IF q.guard_config # <<>>
    THEN [rpc |-> "advanced_scan", check_injection |-> FALSE,
          input_scanners |->
              resolve_scan_config(q.guard_config, q.x_scan_type,
                  [q EXCEPT !.input_scanners = {}, !.output_scanners = {}])
                  .input_scanners]
    ELSE [rpc |-> "scan_prompt", check_injection |-> q.check_injection,
          input_scanners |-> {}]

NextCache ==
    \/ \E r \in DOMAIN guard, request \in CacheRequests : GuardStart(r, request)
    \/ \E r \in DOMAIN guard : guard[r].pc = "limits" /\ req[r].out.kind = ""
                                  /\ RlGet(r)
    \/ \E r \in DOMAIN guard : RlIncr(r)
    \/ \E r \in DOMAIN guard : RlExpire(r)
    \/ \E r \in DOMAIN guard : RlTtl(r)
    \/ \E r \in DOMAIN guard :
          /\ guard[r].pc = "limits" /\ req[r].n = 0 /\ req[r].out.kind # ""
          /\ req[r].out.allowed \/ req[r].out.kind = "Err"
          /\ MqGet(r)
    \/ \E r \in DOMAIN guard : MqIncr(r)
    \/ \E r \in DOMAIN guard : MqExpire(r)
    \/ \E r \in DOMAIN guard : MqTtl(r)
    \/ \E r \in DOMAIN guard, client \in BOOLEAN : GuardLimitsDone(r, client)
    \/ \E r \in DOMAIN guard, answer \in {"safe", "threat", "error"} :
          (answer = "error" \/ (guard[r].pc = "scan" /\ answer = env.verdict[ScanPolicy(guard[r].request)])) /\ GuardScan(r, answer, 7)

SpecCache ==
    /\ \E verdict \in [{ScanPolicy(q) : q \in CacheRequests} -> {"safe", "threat"}] :
          InitScan({}, [pool |-> {}, outcomes |-> {TRUE}, logs |-> {<<>>},
                        rate_limit_rpm |-> RateLimitRpm, counted |-> FALSE,
                        verdict |-> verdict])
    /\ [][NextCache]_vars

(***************************************************************************)
(* list_guard_logs: a table of up to MaxRows rows of two organisations,    *)
(* some of them sharing their created_at, and a client that pages through  *)
(* it with any page size and any status filter.                            *)
(***************************************************************************)
NextLogs ==
    \/ \E id \in 1..MaxRows, created_at \in {1, 2}, is_safe \in BOOLEAN,
          organization_id \in {"org1", "org2"} :
          LogInsert(id, created_at, is_safe, organization_id)
    \/ \E per_page \in {0, 2}, status \in {None, "safe", "threat"} :
          ListPage(per_page, status)

SpecLogs == InitIdle /\ [][NextLogs]_vars

(***************************************************************************)
(* The default model: NumRequests concurrent requests of one organisation, *)
(* each creating a default model or making an existing one the default,    *)
(* every statement succeeding or failing.                                  *)
(***************************************************************************)
NextModels ==
    \/ \E h \in DOMAIN models.req, model_id \in 0..MaxRows, ok \in BOOLEAN :
          ModelUnset(h, model_id, ok)
    \/ \E h \in DOMAIN models.req, ok \in BOOLEAN : ModelSet(h, ok)

SpecModels == InitIdle /\ [][NextModels]_vars

(***************************************************************************)
(* The guard-events endpoints: NumClients requests, each creating a ticket *)
(* or connecting with any credentials, every call succeeding or failing,   *)
(* time passing.                                                           *)
(***************************************************************************)
NextSse ==
    \/ \E c \in DOMAIN sse, request \in SseRequests : CreateTicket(c, request)
    \/ \E c \in DOMAIN sse, request \in SseRequests : Connect(c, request)
    \/ \E d \in {2, SSE_TICKET_TTL_SECS - 1} : StoreTick(d)

SpecSse == InitIdle /\ [][NextSse]_vars

(***************************************************************************)
(* guard_events asked with several credentials at once: a ticket (empty,   *)
(* never issued, issued, used or expired) next to a Bearer token and a     *)
(* session cookie of other users.                                          *)
(***************************************************************************)
AuthRequests ==
    [ticket : {None, "", "t1", "zz"}, token : {None},
     authorization : {None, "s1"}, cookie : {None, "s2"}]

NextAuth ==
    \/ \E c \in DOMAIN sse, request \in {r \in SseRequests : r.authorization # None} :
          CreateTicket(c, request)
    \/ \E c \in DOMAIN sse, request \in AuthRequests : Connect(c, request)
    \/ StoreTick(SSE_TICKET_TTL_SECS - 1)

SpecAuth == InitIdle /\ [][NextAuth]_vars

(***************************************************************************)
(* The event streams: clients connecting with a session token, guard       *)
(* requests of two organisations producing entries, the flush task         *)
(* publishing them, the stream tasks forwarding them.                      *)
(***************************************************************************)
NextStream ==
    \/ \E c \in DOMAIN sse, request \in {r \in SseRequests : r.authorization # None} :
          Connect(c, request)
    \/ \E org \in {"org1", "org2"} : GuardEntry(org)
    \/ WbRecv
    \/ WbFlush
    \/ WbClose
    \/ WbExit
    \/ \E c \in DOMAIN sse : Forward(c)

SpecStream == InitQuota /\ [][NextStream]_vars

\* The same with an INSERT that may fail, under the scheduling of the
\* runtime: the flush task spawned by WriteBuffer::spawn is polled whenever
\* its channel has an entry or is closed, and its flush_timer ticks every
\* FLUSH_INTERVAL_MS.
SpecFlush ==
    /\ InitIdle
    /\ [][NextStream]_vars
    /\ WF_vars(WbRecv)
    /\ WF_vars(WbFlush)
    /\ WF_vars(WbExit)

(***************************************************************************)
(* The tasks of a guard-events connection: clients of two organisations,   *)
(* numbered in the order of their arrival, connect and go away; guard      *)
(* requests of one organisation produce entries or do not. The runtime     *)
(* polls the flush task, the listener of each connection whenever its      *)
(* subscription holds a message, and the stats emitter of each connection  *)
(* at its interval.                                                        *)
(***************************************************************************)
NextTasks ==
    \/ \E c \in DOMAIN sse, request \in {r \in SseRequests : r.authorization # None} :
          (\A b \in 1..(c - 1) : sse[b].pc # "idle") /\ Connect(c, request)
    \/ GuardEntry("org1")
    \/ WbRecv
    \/ WbFlush
    \/ \E c \in DOMAIN sse : Forward(c)
    \/ \E c \in DOMAIN sse : Disconnect(c)
    \/ \E c \in DOMAIN sse : StatsTick(c)

SpecTasks ==
    /\ InitQuota
    /\ [][NextTasks]_vars
    /\ WF_vars(WbRecv)
    /\ WF_vars(WbFlush)
    /\ \A c \in 1..NumClients : WF_vars(Forward(c)) /\ WF_vars(StatsTick(c))

(***************************************************************************)
(* Claims about the scan orchestrator                                      *)
(***************************************************************************)

\* C1: the number of scan rows whose status is queued or running never
\* exceeds MAX_CONCURRENT_SCANS, whatever the interleaving of start_scan
\* requests, driver steps and cancel_scan calls.
C1_ActiveScansWithinLimit == ActiveScanCount <= MAX_CONCURRENT_SCANS

StatusEdges ==
    {<<"absent", "queued">>, <<"queued", "running">>, <<"queued", "cancelled">>,
     <<"running", "completed">>, <<"running", "failed">>, <<"running", "cancelled">>}

\* C2: a scan row's status moves only along queued->running,
\* queued->cancelled, running->completed, running->failed and
\* running->cancelled (after the insert as queued); in particular no step
\* changes a completed, failed or cancelled status.
C2_StatusFollowsMachine ==
    [][\A s \in DOMAIN scan :
          \/ scan'[s].status = scan[s].status
          \/ <<scan[s].status, scan'[s].status>> \in StatusEdges]_vars

\* A cancel_scan call on scan s that found it running has answered
\* "cancelled", and the row is cancelled.
CancelledWhileRunning(s) ==
    /\ scan[s].status = "cancelled"
    /\ \E c \in DOMAIN cancel :
          /\ cancel[c].scan = s
          /\ cancel[c].status = "running"
          /\ cancel[c].resp = "cancelled"
          /\ cancel[c].pc \in {"done", "idle"}

\* C3: once cancel_scan on a running scan has returned status cancelled, no
\* further scan_result row is inserted for that scan.
C3_NoResultAfterCancel ==
    [][\A s \in DOMAIN scan :
          CancelledWhileRunning(s) => scan_result'[s] = scan_result[s]]_vars

\* C4: a cancel_scan call by the creator that finds the scan completed,
\* failed or cancelled ends at once with that status and a 'cannot be
\* cancelled' message as its answer, sends no cancel RPC and leaves the scan
\* table as it was; so does every repetition.
C4_CancelOnTerminalIsNoOp ==
    /\ [](\A c \in DOMAIN cancel :
             (Caller(c) = Creator /\ cancel[c].status \in Terminal)
                => /\ cancel[c].pc \in {"done", "idle"}
                   /\ cancel[c].resp = cancel[c].status
                   /\ cancel[c].message = "cannot be cancelled")
    /\ [][\A c \in DOMAIN cancel :
             (/\ Caller(c) = Creator
              /\ cancel'[c].calls = cancel[c].calls + 1
              /\ cancel'[c].status \in Terminal)
                => /\ scan' = scan
                   /\ sidecar' = sidecar
                   /\ cancel'[c].status = scan[cancel'[c].scan].status]_vars

\* The creator's second call of cancel_scan has found the scan in a terminal
\* status and answered with it.
C4_Witness ==
    \E c \in DOMAIN cancel :
        /\ Caller(c) = Creator
        /\ cancel[c].calls >= 2
        /\ cancel[c].pc = "done"
        /\ cancel[c].resp \in Terminal
        /\ scan[cancel[c].scan].status = cancel[c].resp

\* The first 80 characters of a text.
FirstChars(t, n) == SubSeq(t, 1, IF Len(t) < n THEN Len(t) ELSE n)

ClaimedKey(v) ==
    <<VulnInfo(v).probe_name, VulnInfo(v).probe_class,
      FirstChars(VulnInfo(v).attack_prompt, DEDUP_PREFIX_BYTES)>>

\* C5: no two persisted scan_result rows of a scan share the dedup key
\* (probe_name, probe_class, first 80 characters of attack_prompt).
C5_ResultKeysUnique ==
    \A s \in DOMAIN scan_result :
        \A i, j \in 1..Len(scan_result[s]) :
            i # j => ClaimedKey(scan_result[s][i]) # ClaimedKey(scan_result[s][j])

(***************************************************************************)
(* Claims about the circuit breaker                                        *)
(***************************************************************************)

\* No record_success or record_failure is between its update of
\* failure_count and its write of the state.
BreakerSettled == \A p \in DOMAIN gmc : gmc[p].pc \notin {"rs_state", "rf_state"}

\* C6: from a closed breaker with failure count 0, the breaker is Open
\* exactly when CIRCUIT_FAILURE_THRESHOLD construction failures have occurred
\* with no successful construction between them: failure_count is the number
\* of failures since the last success (so a success resets it to 0), the
\* breaker is Open only with at least 5 of them and is not Closed with 5 or
\* more, and a failure below the threshold leaves the state as it was (a
\* Closed breaker stays Closed).
C6_OpenExactlyAtThreshold ==
    /\ [](circuit_breaker.failure_count = streak)
    /\ [](BreakerSettled =>
            /\ circuit_breaker.state = "Open" => streak >= CIRCUIT_FAILURE_THRESHOLD
            /\ streak >= CIRCUIT_FAILURE_THRESHOLD => circuit_breaker.state # "Closed")
    /\ [][(streak' = streak + 1 /\ streak' < CIRCUIT_FAILURE_THRESHOLD)
             => circuit_breaker'.state = circuit_breaker.state]_vars
    /\ [][(\E p \in DOMAIN gmc : gmc[p].pc = "rs_state" /\ gmc'[p].pc = "idle")
             => /\ circuit_breaker'.failure_count = 0
                /\ circuit_breaker'.state = "Closed"]_vars

\* The fifth consecutive failure has just opened the breaker.
C6_Witness ==
    /\ BreakerSettled
    /\ circuit_breaker.state = "Open"
    /\ streak = CIRCUIT_FAILURE_THRESHOLD

\* C7: a get_ml_client call that has found the breaker Open returns the
\* breaker's error, with no construction and with the breaker's state, its
\* failure count and the cached client untouched, as long as fewer than
\* CIRCUIT_RESET_TIMEOUT_SECS seconds have passed since the last failure; at
\* 30 seconds or more it writes HalfOpen and goes on to the cache.
C7_OpenDeniesUntilTimeout ==
    /\ [][\A p \in DOMAIN gmc :
            (gmc[p].pc = "ca_open" /\ gmc'[p] # gmc[p])
               => IF clock.now - circuit_breaker.last_failure_time
                        < CIRCUIT_RESET_TIMEOUT_SECS
                  THEN /\ gmc'[p].pc = "idle"
                       /\ gmc'[p].result = "ErrBreaker"
                       /\ circuit_breaker' = circuit_breaker
                       /\ ml_client' = ml_client
                       /\ cache_writer' = cache_writer
                       /\ streak' = streak
                  ELSE gmc'[p].pc = "ca_half_open"]_vars
    /\ [][\A p \in DOMAIN gmc :
            (gmc[p].pc = "ca_half_open" /\ gmc'[p] # gmc[p])
               => /\ circuit_breaker'.state = "HalfOpen"
                  /\ gmc'[p].pc = "cache_read"]_vars

\* One call was denied by the open breaker; after the timeout another has
\* moved the breaker to HalfOpen and is on its way to the cache.
C7_Witness ==
    \E p, q \in DOMAIN gmc :
        /\ gmc[p].pc = "idle" /\ gmc[p].result = "ErrBreaker"
        /\ gmc[q].pc = "cache_read" /\ gmc[q].probe
        /\ circuit_breaker.state = "HalfOpen"
        /\ clock.now - circuit_breaker.last_failure_time = CIRCUIT_RESET_TIMEOUT_SECS

\* C8: when the breaker is HalfOpen and a construction attempt completes (the
\* call gives up the cache's write lock), a success has left the breaker
\* Closed with failure count 0 and a failure has left it Open with the
\* last-failure time stamped anew.
C8_HalfOpenResolves ==
    [][\A p \in DOMAIN gmc :
          (circuit_breaker.state = "HalfOpen" /\ cache_writer = p /\ cache_writer' = 0)
             => \/ /\ gmc'[p].result = "Ok"
                   /\ circuit_breaker'.state = "Closed"
                   /\ circuit_breaker'.failure_count = 0
                \/ /\ gmc'[p].result = "ErrConnect"
                   /\ circuit_breaker'.state = "Open"
                   /\ circuit_breaker'.last_failure_time = gmc'[p].at]_vars

(***************************************************************************)
(* Claims about the limiter and the quota                                  *)
(***************************************************************************)

\* Request r holds the answer (true, remaining, retry_after) of check_rate_limit.
Allowed(r) == req[r].out.kind = "Ok" /\ req[r].out.allowed

\* C9: a check_rate_limit call that answers allowed = true after its INCR
\* made the counter n answers remaining = max(0, limit - n) and a retry-after
\* between 0 and 60 seconds; n is the counter's value after the INCR, and no
\* step of the limiter lowers the counter.
C9_AllowedAnswer ==
    /\ [](\A r \in DOMAIN req :
             Allowed(r) =>
                /\ req[r].out.remaining = Max(0, RateLimitRpm - req[r].new_count)
                /\ req[r].out.retry_after \in 0..RATE_LIMIT_WINDOW_SECONDS)
    /\ [][\A r \in DOMAIN req :
             req'[r].new_count > 0 /\ req'[r].new_count # req[r].new_count
                => /\ req'[r].new_count = redis[RateKey].val + 1
                   /\ redis'[RateKey].val = req'[r].new_count]_vars
    /\ [][req' # req => redis'[RateKey].val >= redis[RateKey].val]_vars

\* Two calls passed the comparison together: one was allowed with the counter
\* above the limit and remaining 0, less than a full window before the reset.
C9_Witness ==
    \E r \in DOMAIN req :
        /\ Allowed(r)
        /\ req[r].new_count > RateLimitRpm
        /\ req[r].out.remaining = 0
        /\ req[r].out.retry_after < RATE_LIMIT_WINDOW_SECONDS

\* C10: the monthly counter of a key never exceeds the key's monthly limit,
\* whatever the interleaving of single requests and batch requests.
C10_MonthlyCounterWithinLimit == redis[MonthKey].val <= MonthlyLimit

(***************************************************************************)
(* Claims about the guard endpoints                                        *)
(***************************************************************************)
SizeRejected(b) == b.pc = "done" /\ b.code \in {"EMPTY_BATCH", "BATCH_TOO_LARGE"}

\* C11: batch_scan accepts a list of N prompts exactly when 1 <= N <= 50:
\* N = 0 is answered EMPTY_BATCH and N >= 51 BATCH_TOO_LARGE, any other
\* size goes on to the limiter.  The step that rejects a batch for its size
\* changes nothing in the store and starts no limiter call, the rejected
\* handler has made no sidecar call, and it takes no further step.
C11_BatchSizeGate ==
    /\ [](\A r \in DOMAIN bat :
            /\ bat[r].code = "EMPTY_BATCH" <=>
                  (bat[r].pc # "idle" /\ Len(bat[r].prompts) = 0)
            /\ bat[r].code = "BATCH_TOO_LARGE" <=>
                  (bat[r].pc # "idle" /\ Len(bat[r].prompts) >= 51)
            /\ SizeRejected(bat[r]) =>
                  bat[r].calls = 0 /\ bat[r].logged = 0 /\ req[r] = ReqIdle)
    /\ [][\A r \in DOMAIN bat :
            /\ (bat[r].pc = "idle" /\ SizeRejected(bat'[r])) =>
                  redis' = redis /\ req' = req /\ write_buffer' = write_buffer
            /\ SizeRejected(bat[r]) =>
                  bat'[r] = bat[r] /\ req'[r] = req[r]]_vars

\* A batch of 50 has passed the size check, next to batches of 0 and of 51
\* rejected while the counters hold what the first batch's limiter call wrote.
C11_Witness ==
    \E r, q \in DOMAIN bat :
        /\ Len(bat[r].prompts) = 50 /\ bat[r].code = "RATE_LIMITED"
        /\ Len(bat[q].prompts) \in {0, 51} /\ SizeRejected(bat[q])
        /\ redis[RateKey].val = 1

(***************************************************************************)
(* Claims about the guard-events endpoints                                 *)
(***************************************************************************)
Redeemers(ticket) ==
    {c \in DOMAIN sse : sse[c].endpoint = "events" /\ sse[c].ticket = ticket}

\* C12: a ticket authenticates at most one stream connection.  At most one
\* connection has redeemed any ticket; a connection that presented a ticket
\* and did not redeem it was answered TICKET_INVALID; and a connection made
\* with a ticket more than 30 seconds after it was issued is answered
\* TICKET_INVALID.
C12_TicketSingleUse ==
    /\ \A i \in DOMAIN TicketIds : Cardinality(Redeemers(TicketIds[i])) <= 1
    /\ \A c \in DOMAIN sse :
          (sse[c].endpoint = "events" /\ sse[c].request.ticket # None
             /\ sse[c].ticket = None) => sse[c].code = "TICKET_INVALID"
    /\ \A c \in DOMAIN sse, i \in DOMAIN hist.tickets :
          (sse[c].endpoint = "events" /\ sse[c].request.ticket = TicketIds[i]
             /\ sse[c].at > hist.tickets[i] + 30) => sse[c].code = "TICKET_INVALID"

\* Two connections presented the same issued ticket within its time: one
\* redeemed it and is open, the other was answered TICKET_INVALID.
C12_Witness ==
    \E c, d \in DOMAIN sse :
        /\ c # d
        /\ sse[c].ticket = "t1" /\ sse[c].endpoint = "events" /\ sse[c].pc = "open"
        /\ sse[d].endpoint = "events" /\ sse[d].request.ticket = "t1"
        /\ sse[d].at >= hist.tickets[1] /\ sse[d].at <= hist.tickets[1] + 30
        /\ sse[d].at >= sse[c].at
        /\ sse[d].code = "TICKET_INVALID"

\* The request carries no ticket, no Authorization token and no cookie.
OnlyQueryToken(request) ==
    /\ request.token # None
    /\ request.ticket = None /\ request.authorization = None /\ request.cookie = None

\* C13: on both endpoints a request whose only credential is a session
\* token in the query string is not authenticated: it is answered with a
\* 401 code and no user, stream or ticket comes of it.
C13_QueryTokenNeverAuthenticates ==
    \A c \in DOMAIN sse :
        (sse[c].endpoint # "" /\ OnlyQueryToken(sse[c].request)) =>
            /\ sse[c].code \in {"SESSION_REQUIRED", "SESSION_INVALID", "TICKET_INVALID"}
            /\ sse[c].user = 0 /\ sse[c].pc = "done" /\ sse[c].ticket = None

\* Both endpoints have answered a request whose only credential is the
\* valid session token s1 in the query string.
C13_Witness ==
    \E c, d \in DOMAIN sse :
        /\ sse[c].endpoint = "events" /\ sse[d].endpoint = "ticket"
        /\ OnlyQueryToken(sse[c].request) /\ OnlyQueryToken(sse[d].request)
        /\ sse[c].request.token = "s1"
        /\ sse[c].code = "SESSION_REQUIRED" /\ sse[d].code = "SESSION_REQUIRED"

\* C14: every guard_log event a stream has sent to its client is of the
\* organisation resolved when the client connected.
C14_EventsOfOwnOrganization ==
    \A c \in DOMAIN sse :
        \A i \in DOMAIN sse[c].received :
            sse[c].received[i].organization_id = sse[c].org

\* A stream of org1 has sent an event to its client and has skipped an
\* event of org2 that was published while it was subscribed.
C14_Witness ==
    \E c \in DOMAIN sse :
        /\ sse[c].pc = "open" /\ sse[c].org = "org1"
        /\ Len(sse[c].received) = 1 /\ sse[c].inbox = <<>>
        /\ hist.entries = 2
        /\ \E d \in DOMAIN sse :
              sse[d].pc = "open" /\ sse[d].org = "org2" /\ Len(sse[d].received) = 1
                 /\ sse[d].inbox = <<>>

(***************************************************************************)
(* Claims about the guard endpoints' audit entries and configuration       *)
(***************************************************************************)
\* C15: every audit entry that a guard endpoint has queued, waiting in the
\* channel or in the flush task's batch, has no prompt text exactly when
\* its result is safe.
C15_TextOnlyForThreats ==
    \A entry \in {write_buffer.chan[i] : i \in DOMAIN write_buffer.chan} \cup
                  {write_buffer.batch[i] : i \in DOMAIN write_buffer.batch} :
        entry.prompt_text = <<>> <=> entry.is_safe

\* The flush task's batch holds a safe entry of batch_scan without text
\* and the channel an unsafe entry of advanced_scan with the prompt.
C15_Witness ==
    \E i \in DOMAIN write_buffer.batch, j \in DOMAIN write_buffer.chan :
        /\ write_buffer.batch[i].request_type = "batch"
        /\ write_buffer.batch[i].is_safe
        /\ write_buffer.batch[i].prompt_text = <<>>
        /\ write_buffer.chan[j].request_type = "advanced_prompt"
        /\ ~write_buffer.chan[j].is_safe
        /\ write_buffer.chan[j].prompt_text = << <<"h", "i">> >>

\* C16: a scan_prompt request answered from the cache (OK without a call of
\* the sidecar) has cached = true, and some other scan_prompt request of
\* the same prompt was answered by the sidecar with a different id and the
\* same safe, threats, risk_score, threat_categories, sanitized_prompt and
\* latency_ms; the step that answers it puts an entry with cached = true
\* and that latency into the channel when the channel has room.
C16_CacheHitKeepsResponse ==
    /\ [](\A r \in DOMAIN guard :
            (guard[r].request.endpoint = "scan" /\ guard[r].code = "OK"
                /\ guard[r].rpc = "") =>
                /\ guard[r].response.cached
                /\ \E w \in DOMAIN guard \ {r} :
                      /\ guard[w].request.endpoint = "scan" /\ guard[w].code = "OK"
                      /\ guard[w].rpc # ""
                      /\ guard[w].request.prompt = guard[r].request.prompt
                      /\ ~guard[w].response.cached
                      /\ guard[w].response.id # guard[r].response.id
                      /\ \A f \in {"safe", "threats", "risk_score",
                                    "threat_categories", "sanitized_prompt",
                                    "latency_ms"} :
                            guard[w].response[f] = guard[r].response[f])
    /\ [][\A r \in DOMAIN guard :
             (/\ guard[r].code = "" /\ guard'[r].code = "OK" /\ guard'[r].rpc = ""
              /\ Len(write_buffer.chan) < ChannelCapacity) =>
                 /\ Len(write_buffer'.chan) = Len(write_buffer.chan) + 1
                 /\ write_buffer'.chan[Len(write_buffer'.chan)].cached
                 /\ write_buffer'.chan[Len(write_buffer'.chan)].latency_ms
                       = guard'[r].response.latency_ms
                 /\ write_buffer'.chan[Len(write_buffer'.chan)].is_safe
                       = guard'[r].response.safe]_vars

\* A request was answered from the cache with a threat found in 9 ms, and
\* its entry is in the channel.
C16_Witness ==
    \E r \in DOMAIN guard :
        /\ guard[r].request.endpoint = "scan" /\ guard[r].code = "OK"
        /\ guard[r].rpc = ""
        /\ guard[r].response.threat_categories = << <<"inj">> >>
        /\ guard[r].response.latency_ms = 9
        /\ \E i \in DOMAIN write_buffer.chan :
              write_buffer.chan[i].cached /\ write_buffer.chan[i].latency_ms = 9

\* C17: an advanced_scan request without scanners in its body, made with a
\* key whose stored configuration has scan_mode "both", resolves to the
\* key's input_scanners and, with the header X-Scan-Type: prompt, to
\* prompt_only (with X-Scan-Type: output, to output_only), and the sidecar
\* is called with what was resolved.
C17_HeaderNarrowsScanMode ==
    \A r \in DOMAIN guard :
        LET q == guard[r].request
        IN  (/\ q.endpoint = "advanced" /\ q.guard_config # <<>>
             /\ q.input_scanners = {} /\ q.output_scanners = {}) =>
            (q.guard_config[1].scan_mode = "both" =>
                /\ guard[r].resolved.input_scanners = q.guard_config[1].input_scanners
                /\ q.x_scan_type = "prompt" => guard[r].resolved.scan_mode = "prompt_only"
                /\ q.x_scan_type = "output" => guard[r].resolved.scan_mode = "output_only")

\* A step in which handler r calls queue: batch_scan logs an item that has
\* a result; scan_prompt, validate_output or advanced_scan answers OK.
QueueCall(r) ==
    \/ /\ bat[r].pc = "log"
       /\ bat'[r].logged = bat[r].logged + 1
       /\ bat[r].results[bat[r].logged + 1] \in {"safe", "threat"}
    \/ guard[r].code = "" /\ guard'[r].code = "OK"

\* C18: a call of queue is one step of the handler whatever the channel
\* holds: on a channel that holds its capacity the entry is discarded (a
\* warning is logged) and the channel and the batch are unchanged; otherwise
\* the entry is appended behind the entries already queued.
C18_QueueNeverBlocks ==
    [][\A r \in DOMAIN req :
          QueueCall(r) =>
             IF Len(write_buffer.chan) >= ChannelCapacity
             THEN /\ write_buffer'.chan = write_buffer.chan
                  /\ write_buffer'.batch = write_buffer.batch
                  /\ write_buffer'.warned = write_buffer.warned + 1
             ELSE /\ Len(write_buffer'.chan) = Len(write_buffer.chan) + 1
                  /\ SubSeq(write_buffer'.chan, 1, Len(write_buffer.chan))
                        = write_buffer.chan
                  /\ write_buffer'.batch = write_buffer.batch
                  /\ write_buffer'.warned = write_buffer.warned]_vars

\* Two requests have been answered OK while the flush task had taken
\* nothing from a full channel: one entry is queued, one was discarded.
C18_Witness ==
    /\ Len(write_buffer.chan) = ChannelCapacity
    /\ write_buffer.batch = <<>>
    /\ write_buffer.warned = 1
    /\ \E r \in DOMAIN bat : bat[r].code = "OK"
    /\ \E r \in DOMAIN guard : guard[r].code = "OK"

\* C20: every scanner configuration the sidecar's advanced_scan was called
\* with, taken from the key or from the request body, has its threshold
\* between 0 and 1 (0 to 100 hundredths).
C20_ThresholdsInRange ==
    \A r \in DOMAIN guard :
        guard[r].rpc = "advanced_scan" =>
            \A entry \in guard[r].resolved.input_scanners \cup
                          guard[r].resolved.output_scanners :
                entry.threshold >= 0 /\ entry.threshold <= 100

(***************************************************************************)
(* Claims about list_guard_logs                                            *)
(***************************************************************************)
\* The rows of org1 that pass the status filter of the iteration.
Matching ==
    {row \in pager.guard_log :
        /\ row.organization_id = "org1"
        /\ pager.status = "safe" => row.is_safe
        /\ pager.status = "threat" => ~row.is_safe}

\* C19: the ids returned so far by an iteration over the pages are ids of
\* matching rows, each returned once, in the order created_at descending
\* then id descending; when the iteration has ended, every matching row
\* was returned.
C19_CursorVisitsEachRowOnce ==
    LET row_of(i) == CHOOSE row \in pager.guard_log : row.id = pager.visited[i]
    IN  /\ \A i \in DOMAIN pager.visited : row_of(i) \in Matching
        /\ \A i, j \in DOMAIN pager.visited :
              i < j =>
                 \/ row_of(i).created_at > row_of(j).created_at
                 \/ /\ row_of(i).created_at = row_of(j).created_at
                    /\ row_of(i).id > row_of(j).id
        /\ pager.pc = "end" =>
              {pager.visited[i] : i \in DOMAIN pager.visited}
                 = {row.id : row \in Matching}

\* An iteration one row a page has ended after the two matching rows,
\* which share their created_at, over a table that also holds a row that
\* does not match.
C19_Witness ==
    /\ pager.pc = "end"
    /\ pager.per_page = 0
    /\ Len(pager.visited) = 2
    /\ \E x, y \in Matching : x.id # y.id /\ x.created_at = y.created_at
    /\ pager.guard_log \ Matching # {}

(***************************************************************************)
(* Claims about the default model                                          *)
(***************************************************************************)
\* C21: at most one row of the organisation's model_config has
\* is_default = true.
C21_AtMostOneDefault ==
    Cardinality({id \in DOMAIN models.model_config :
                    models.model_config[id] = <<TRUE>>}) <= 1

(***************************************************************************)
(* Claims about the poll loop                                              *)
(***************************************************************************)
\* C22: once MAX_CONSECUTIVE_FAILURES poll iterations in a row have failed,
\* at get_ml_client or at get_garak_status, with no Ok status response in
\* between, the driver has left its poll loop; when its UPDATE took effect
\* the row is failed with "Lost connection to ML service".
C22_TenFailedPollsEndTheLoop ==
    \A s \in DOMAIN drv :
        drv[s].failed_polls >= MAX_CONSECUTIVE_FAILURES =>
            /\ drv[s].pc = "done"
            /\ scan[s].status = "failed" =>
                  scan[s].error_message = "Lost connection to ML service"

\* C23: when from some point on every status the sidecar reports is
\* terminal (completed, failed or cancelled), the driver eventually is out
\* of its poll loop for good, and has left it with the row in a terminal
\* status.
C23_TerminalReportEndsTheLoop ==
    \A s \in ScanIds :
        <>[](drv[s].pc = "match" => drv[s].resp.status \in Terminal)
        => <>[](/\ drv[s].pc \in {"none", "done"}
                /\ drv[s].pc = "done" => scan[s].status \in Terminal)

\* The rows of scan_log of scan s that belong to log key k.
LogRows(s, k) ==
    {j \in 1..Len(scan_log[s]) :
        scan_log[s][j].probe_name \o <<":">> \o scan_log[s][j].probe_class = k}

C25_OnlyConstructionMovesBreaker ==
    [][/\ <<circuit_breaker, ml_client>>' # <<circuit_breaker, ml_client>>
          => \E p \in DOMAIN gmc : gmc[p].pc # "idle" /\ gmc'[p] # gmc[p]
       /\ (\E p \in DOMAIN gmc : gmc'[p].result \in {"RpcOk", "RpcErr"}
                                    /\ gmc[p].result = "Ok")
          => UNCHANGED <<circuit_breaker, ml_client>>]_vars

\* An RPC has failed while failures of construction were counted and another
\* RPC has succeeded while a client was cached.
C25_Witness ==
    \E p, q \in DOMAIN gmc :
        /\ gmc[p].result = "RpcErr"
        /\ gmc[q].result = "RpcOk"
        /\ ml_client.present
        /\ circuit_breaker.last_failure_time > 0

\* C26: of the get_ml_client calls that run together at most one is past
\* the write lock; a call constructs a client only while no client within
\* its time to live is cached, so one call constructs and the calls that
\* follow it through the lock find its client; a call that returns from the
\* cache returns the one cached client, which stays as it is.
C26_OneConstructsOthersClone ==
    /\ [](\A p, q \in DOMAIN gmc :
            (/\ gmc[p].pc \in {"construct", "rs_state", "rf_state"}
             /\ gmc[q].pc \in {"construct", "rs_state", "rf_state"}) => p = q)
    /\ [](\A p \in DOMAIN gmc :
            gmc[p].pc = "construct" =>
                ~(/\ ml_client.present
                  /\ clock.now - ml_client.created_at < CLIENT_CACHE_TTL_SECS))
    /\ [][\A p \in DOMAIN gmc :
            (gmc[p].pc \in {"cache_read", "cache_write"} /\ gmc'[p].result = "Ok")
            => /\ ml_client.present
               /\ clock.now - ml_client.created_at < CLIENT_CACHE_TTL_SECS
               /\ ml_client' = ml_client]_vars

\* Two calls found the cache empty; one has constructed its client and holds
\* the write lock, the other waits for the lock.
C26_Witness ==
    \E p, q \in DOMAIN gmc :
        /\ gmc[p].pc = "rs_state"
        /\ gmc[q].pc = "cache_write"
        /\ ~ml_client.present

C28_RejectedBatchLeavesCounters ==
    \A r \in DOMAIN bat :
        (/\ bat[r].pc = "done"
         /\ bat[r].code \in {"RATE_LIMITED", "QUOTA_EXCEEDED"}
         /\ \A q \in DOMAIN bat \ {r} : bat[q].pc = "idle" /\ guard[q].pc = "idle")
        => <<redis[RateKey].val, redis[MonthKey].val>> = bat[r].before

(***************************************************************************)
(* Claims about the flush task                                             *)
(***************************************************************************)
\* The batch that the flush of this step hands to flush_batch.
FlushedBatch ==
    IF write_buffer'.chan # write_buffer.chan
    THEN Append(write_buffer.batch, Head(write_buffer.chan))
    ELSE write_buffer.batch

\* The events of the entries of a batch at the positions sent, in order.
EventsOf(batch, sent) ==
    LET ev[i \in 0..Len(batch)] ==
            IF i = 0 THEN <<>>
            ELSE IF i \in sent
            THEN Append(ev[i - 1], [organization_id |-> batch[i].organization_id,
                                    is_safe |-> batch[i].is_safe,
                                    latency_ms |-> batch[i].latency_ms,
                                    cached |-> batch[i].cached,
                                    request_type |-> batch[i].request_type])
            ELSE ev[i - 1]
    IN  ev[Len(batch)]

\* C29: a flush either persists its whole batch or nothing of it, and
\* leaves nothing of it in the task's batch to try again; when the INSERT
\* failed no event is published; when it succeeded the events published are
\* those of some entries of the batch, in the order of the batch, whichever
\* of their PUBLISH commands failed; and no step that is not a flush
\* publishes an event.
C29_PublishAfterInsertInOrder ==
    [][LET B == FlushedBatch
           ok == write_buffer'.guard_log # write_buffer.guard_log
       IN  IF write_buffer'.flushed # write_buffer.flushed
           THEN /\ write_buffer'.flushed = write_buffer.flushed + Len(B)
                /\ write_buffer'.batch = <<>>
                /\ write_buffer'.guard_log \in
                      {write_buffer.guard_log, write_buffer.guard_log \o B}
                /\ ~ok => \A c \in DOMAIN sse : sse'[c].inbox = sse[c].inbox
                /\ \E sent \in SUBSET (1..Len(B)) :
                      \A c \in DOMAIN sse :
                         sse'[c].inbox = IF sse[c].pc = "open"
                                         THEN sse[c].inbox \o EventsOf(B, sent)
                                         ELSE sse[c].inbox
           ELSE /\ write_buffer'.guard_log = write_buffer.guard_log
                /\ \A c \in DOMAIN sse :
                      Len(sse'[c].inbox) <= Len(sse[c].inbox)]_vars

\* A batch of two entries, of org1 and then of org2, is persisted; the
\* PUBLISH of the first failed and the event of the second was published to
\* an open stream.
C29_Witness ==
    /\ Len(write_buffer.guard_log) = 2
    /\ write_buffer.guard_log[1].organization_id = "org1"
    /\ write_buffer.guard_log[2].organization_id = "org2"
    /\ \E c \in DOMAIN sse :
          /\ sse[c].pc = "open"
          /\ Len(sse[c].inbox) = 1
          /\ sse[c].inbox[1].organization_id = "org2"
          /\ sse[c].org = "org2"

\* The entries the channel has accepted: those queued less those dropped.
Accepted == hist.entries - write_buffer.warned

\* C30: every entry accepted by the channel is in the channel, in the
\* task's batch, or has been handed to exactly one flush, never to two;
\* each accepted entry is eventually handed to a flush; a task that has
\* returned left no entry in the channel or in its batch, and after the
\* channel is closed the task eventually returns.
C30_EachEntryFlushedOnce ==
    /\ [](Accepted = Len(write_buffer.chan) + Len(write_buffer.batch)
                        + write_buffer.flushed)
    /\ [](write_buffer.rx = "exited" =>
            write_buffer.chan = <<>> /\ write_buffer.batch = <<>>)
    /\ \A n \in 1..MaxEntries : (Accepted >= n) ~> (write_buffer.flushed >= n)
    /\ (write_buffer.rx = "closed") ~> (write_buffer.rx = "exited")

\* The task has returned after the channel was closed: both accepted
\* entries were handed to a flush, and an INSERT of the task failed.
C30_Witness ==
    /\ write_buffer.rx = "exited"
    /\ write_buffer.flushed = MaxEntries
    /\ Accepted = MaxEntries
    /\ Len(write_buffer.guard_log) < MaxEntries

\* C31: in resolve_scan_config, for a body without scanner maps and a key
\* that has a stored GuardConfig, the X-Scan-Type header is consulted only
\* when the key's scan_mode is both: a key of prompt_only or output_only
\* resolves to its own mode whatever the header says, an unrecognised header
\* value keeps the key's mode, and a recognised one on a key of both can
\* only narrow to the mode it names.
C31_HeaderOnlyNarrows ==
    \A r \in DOMAIN guard :
        LET q == guard[r].request
            key_mode == q.guard_config[1].scan_mode
            mode == guard[r].resolved.scan_mode
        IN  (/\ q.endpoint = "advanced" /\ guard[r].pc # "idle"
             /\ q.guard_config # <<>>
             /\ q.input_scanners = {} /\ q.output_scanners = {})
            => /\ key_mode \in {"prompt_only", "output_only"} => mode = key_mode
               /\ q.x_scan_type \notin {"prompt_only", "output_only", "both"}
                     => mode = key_mode
               /\ key_mode = "both" /\ q.x_scan_type \in {"prompt_only", "output_only", "both"}
                     => mode = q.x_scan_type

\* A key of output_only is asked with X-Scan-Type: both and stays
\* output_only, while a key of both is narrowed to prompt_only.
C31_Witness ==
    /\ \E r \in DOMAIN guard :
          /\ guard[r].request.endpoint = "advanced" /\ guard[r].pc # "idle"
          /\ guard[r].request.guard_config # <<>>
          /\ guard[r].request.guard_config[1].scan_mode = "output_only"
          /\ guard[r].request.x_scan_type = "both"
          /\ guard[r].resolved.scan_mode = "output_only"
    /\ \E r \in DOMAIN guard :
          /\ guard[r].request.endpoint = "advanced" /\ guard[r].pc # "idle"
          /\ guard[r].request.guard_config # <<>>
          /\ guard[r].request.guard_config[1].scan_mode = "both"
          /\ guard[r].request.x_scan_type = "prompt_only"
          /\ guard[r].resolved.scan_mode = "prompt_only"

\* C32: guard_events authenticates with strict precedence. A request that
\* carries a ticket is decided by the ticket alone: an empty, unknown,
\* expired or used ticket is answered TICKET_INVALID whatever Authorization
\* header or cookie comes with it, and a redeemed one makes the caller the
\* ticket's user. The Bearer token is consulted only without a ticket, the
\* cookie only without ticket and Bearer token.
C32_TicketThenHeaderThenCookie ==
    [][\A c \in DOMAIN sse :
          (sse[c].pc = "idle" /\ sse'[c].endpoint = "events") =>
          LET q == sse'[c].request
              key == TicketKey(q.ticket)
              live == q.ticket # "" /\ key \in DOMAIN redis /\ redis[key] # NoKey
              session == [s1 |-> 1, s2 |-> 2]
              by(token) == \/ sse'[c].code \in {"AUTH_ERROR", "SESSION_INVALID"}
                                /\ sse'[c].user = 0
                                /\ (sse'[c].code = "SESSION_INVALID"
                                       => token \notin DOMAIN session)
                           \/ sse'[c].code \in {"OK", "ORG_NOT_FOUND"}
                                /\ token \in DOMAIN session
                                /\ sse'[c].user = session[token]
          IN  /\ q.ticket # None =>
                    /\ sse'[c].code \in {"TICKET_INVALID", "OK", "ORG_NOT_FOUND"}
                    /\ ~live => sse'[c].code = "TICKET_INVALID"
                    /\ sse'[c].code # "TICKET_INVALID"
                          => live /\ sse'[c].user = redis[key].val
              /\ q.ticket = None /\ q.authorization # None => by(q.authorization)
              /\ q.ticket = None /\ q.authorization = None /\ q.cookie # None
                    => by(q.cookie)
              /\ q.ticket = None /\ q.authorization = None /\ q.cookie = None
                    => sse'[c].code = "SESSION_REQUIRED"]_vars

\* The first presentation of a ticket, next to the Bearer token of user 1,
\* opened the stream of the ticket's user 2; the second, next to a valid
\* Bearer token and a valid cookie, is answered TICKET_INVALID.
C32_Witness ==
    \E c, d \in DOMAIN sse :
        /\ sse[c].endpoint = "events" /\ sse[c].request.ticket = "t1"
        /\ sse[c].request.authorization = "s1" /\ sse[c].user = 2
        /\ sse[c].pc = "open"
        /\ sse[d].endpoint = "events" /\ sse[d].request.ticket = "t1"
        /\ sse[d].request.authorization = "s1" /\ sse[d].request.cookie = "s2"
        /\ sse[d].code = "TICKET_INVALID"

\* C33: after the client of a guard-events connection has gone away, the
\* pub/sub listener and the stats emitter of the connection both exit
\* eventually, whatever is or is not published afterwards.
C33_TasksExitAfterDisconnect ==
    \A c \in 1..NumClients :
        (sse[c].client = "gone") ~> (sse[c].pc # "open" /\ sse[c].stats # "running")

\* C34: over the lifetime of a scan event stream connected while the scan
\* runs, every row of scan_result is sent as exactly one vulnerability
\* event: no row is sent twice, and every row persisted before the terminal
\* event has been sent by then.
C34_EachRowOneEvent ==
    \A w \in DOMAIN watch :
        LET e == watch[w].events
            s == watch[w].scan_id
        IN  (watch[w].pc \in {"tick", "vulns", "exited"} /\ watch[w].rx = "open") =>
            /\ \A i, j \in DOMAIN e :
                  (/\ e[i].event = "vulnerability" /\ e[j].event = "vulnerability"
                   /\ e[i].row = e[j].row) => i = j
            /\ e[Len(e)].event \in Terminal =>
                  \A r \in 1..e[Len(e)].rows :
                      \E i \in DOMAIN e : e[i].event = "vulnerability" /\ e[i].row = r

\* C35: a scan event stream carries at most one terminal event, it is the
\* last event, and its type is the scan's status at the time it is sent;
\* for a scan that is terminal at connect time it follows the connected
\* event at once and the stream closes; a watcher polls at most
\* max_iterations times.
C35_OneTerminalEventLast ==
    \A w \in DOMAIN watch :
        LET e == watch[w].events
        IN  /\ \A i \in DOMAIN e :
                  e[i].event \in Terminal => i = Len(e) /\ e[i].event = e[i].status
            /\ watch[w].pc = "closed" =>
                  /\ Len(e) = 2 /\ e[1].event = "connected" /\ e[2].event \in Terminal
            /\ watch[w].pc \in {"tick", "vulns"} =>
                  /\ watch[w].iteration <= max_iterations
                  /\ \A i \in DOMAIN e : e[i].event \notin Terminal

\* C36: once the driver task of an inserted scan has returned, the row is
\* not left queued or running: a failure of the driver (no gateway client,
\* a failed start_garak_scan, a lost connection while polling, a failure
\* reported by the sidecar) is on the row as status failed with a
\* non-empty error_message.
C36_DriverFailuresRecorded ==
    \A s \in DOMAIN scan :
        drv[s].pc = "done" =>
            /\ scan[s].status \notin {"queued", "running"}
            /\ scan[s].status = "failed" => scan[s].error_message # ""

\* C37: within one window of a key's per-minute counter, check_rate_limit
\* admits no more requests than the key's limit, whatever the interleaving
\* of the GET, INCR and EXPIRE of concurrent requests: the counter, which
\* counts the admitted requests of the window, stays within the limit, and
\* so does the count every admitted request was given.
C37_AdmittedWithinLimit ==
    /\ redis[RateKey].val <= env.rate_limit_rpm
    /\ \A r \in DOMAIN req : Allowed(r) => req[r].new_count <= env.rate_limit_rpm

\* C38: once the operations on the counters have finished, with or without
\* a store error, every per-minute and monthly counter key that exists
\* carries a time to live: no counter key is left without expiry.
C38_CounterKeysExpire ==
    (\A r \in DOMAIN req : req[r].pc = "idle") =>
        \A k \in {RateKey, MonthKey} : redis[k] # NoKey => redis[k].ttl >= 0

\* C39: the verdict (safe, threats, risk_score) that POST /v1/guard/scan
\* returns for a prompt is the one the sidecar gives for that prompt under
\* the requesting key's own scan policy, whoever scanned the prompt before.
C39_VerdictFromOwnPolicy ==
    \A r \in DOMAIN guard :
        (guard[r].pc = "done" /\ guard[r].code = "OK") =>
            LET threat == env.verdict[ScanPolicy(guard[r].request)] = "threat"
            IN  /\ guard[r].response.safe = ~threat
                /\ guard[r].response.threats = IF threat THEN <<"inj">> ELSE <<>>
                /\ guard[r].response.risk_score = IF threat THEN 90 ELSE 0

\* C40: for every interleaving of cancel_scan with the driver's start
\* sequence, a scan that the sidecar has accepted and that ends cancelled
\* by its user has had a cancel_garak_scan sent for its remote scan id, and
\* once a scan is cancelled while still queued (before the driver's first
\* UPDATE) no start_garak_scan is ever sent for it.
C40_CancelReachesSidecar ==
    /\ [](\A s \in ScanIds :
            (/\ scan[s].status = "cancelled"
             /\ scan[s].error_message = "Cancelled by user"
             /\ sidecar[s].started
             /\ drv[s].pc = "done"
             /\ \A c \in DOMAIN cancel : cancel[c].pc \in {"idle", "done"})
                => sidecar[s].cancels > 0)
    /\ \A s \in ScanIds :
          []((scan[s].status = "cancelled" /\ drv[s].pc = "spawned")
                => [](~sidecar[s].started))
====
